---- MODULE Spec2Model ----
(***************************************************************************)
(* Model of the Pishti card-game engine (type Casino, src/game.go).        *)
(*                                                                         *)
(* The engine is one struct guarded by one mutex; every exported operation *)
(* locks for its whole duration, so each operation is one atomic action on *)
(* the record `casino`.  A card is its identifier 1..52 (the iconPath that *)
(* NewCasino gives it); Nil (0) is the nil pointer.  Slices are functions  *)
(* with the 0-based domain the source indexes them by.                     *)
(***************************************************************************)
EXTENDS Integers, Sequences, FiniteSets, TLC

VARIABLES
  casino,   \* the Casino struct
  lastOp,   \* history: the operation called last, its argument and result
  prevOp,   \* history: class of the operation called before lastOp
  pre,      \* history: the Casino struct on entry to the last playerPlays,
            \*          its argument, and whether it took a snapshot
  started,  \* history: StartGame succeeded and the game was not reset since
  snapshotInGame, \* history: a playerPlays took a snapshot since the last
                  \*          StartGame or ResetGame
  steps,    \* history: number of operations called so far
  mu,       \* the engine's mutex: the goroutine holding it, or Unlocked
  pc,       \* per goroutine: where it is in the operation it has called
  ui        \* the AppUI struct and the timers it has started

vars ==
  <<casino, lastOp, prevOp, pre, started, snapshotInGame, steps, mu, pc, ui>>

----------------------------------------------------------------------------
(* Bounds of the exploration. *)

MaxSteps == 5
NumSeeds == 2
FreeOps == 2      \* operations called on a game taken up in progress
ClosingOps == 3   \* a seeded game is taken up this many operations before
                  \* its end, or later,
CutEvery == 8     \* and after every CutEvery-th operation before that
NumGoroutines == 2   \* goroutines calling into the engine at the same time
MaxCalls == 2        \* calls they make between them

----------------------------------------------------------------------------
(* Constants of src/game.go. *)

StateNotStarted == 0
StatePlayerTurn == 1
StateCPUTurn == 2
StateGameOver == 3
StatePileCaptured == 4

NoPlayer == 0
Player == 1
CPU == 2

LevelNotSelected == 0
LevelBeginner == 1
LevelIntermediate == 2
LevelAdvanced == 3

DeckSize == 52
HandSize == 4

Nil == 0

faces == <<"Ace", "Deuce", "Three", "Four", "Five", "Six", "Seven", "Eight",
           "Nine", "Ten", "Jack", "Queen", "King">>
suits == <<"Hearts", "Diamonds", "Clubs", "Spades">>

Slots == 0..(HandSize - 1)
DeckIdx == 0..(DeckSize - 1)

----------------------------------------------------------------------------
(* Cards.  Card k is NewCard(faces[(k-1)%13], suits[(k-1)/13], Itoa(k)).   *)
(* GetFace and GetSuit are undefined on Nil, as a nil dereference is.      *)

GetFace(card) ==
  CASE card # Nil -> faces[((card - 1) % 13) + 1]

GetSuit(card) ==
  CASE card # Nil -> suits[((card - 1) \div 13) + 1]

----------------------------------------------------------------------------
(* Slice helpers: make/copy of Go. *)

MinOf(S) == CHOOSE x \in S : \A y \in S : x <= y

\* s[:n] copied into a fresh slice
SliceCopy(s, n) == [i \in 0..(n - 1) |-> s[i]]

\* copy(dst, src): the first min(len) elements of src overwrite dst
CopyInto(dst, src) ==
  [i \in DOMAIN dst |-> IF i \in DOMAIN src THEN src[i] ELSE dst[i]]

\* for i := from; i < len(s); i++ { if s[i] == nil { break }; s[i] = nil }
ClearRun(s, from) ==
  LET stops == {j \in DOMAIN s : j >= from /\ s[j] = Nil}
      stop  == IF stops = {} THEN DeckSize ELSE MinOf(stops)
  IN  [i \in DOMAIN s |-> IF i >= from /\ i < stop THEN Nil ELSE s[i]]

NilSlice == SliceCopy(<<>>, 0)

ZeroUndoState ==
  [playerPoint |-> 0, cpuPoint |-> 0, lastScorer |-> NoPlayer,
   cardsCollectedByPlayer |-> 0, cardsCollectedByCPU |-> 0,
   cardsOnTable |-> 0, tableCards |-> NilSlice, playerCards |-> NilSlice,
   initialHiddenCards |-> <<>>, safeDiscardCandidate |-> Nil,
   isInitialPile |-> FALSE, cpuCards |-> NilSlice,
   currentHandMemory |-> NilSlice, currentHandMemoryLength |-> 0]

NewCasino ==
  [cpuCards |-> [i \in Slots |-> Nil],
   allPlayedCardsMemory |-> [i \in DeckIdx |-> Nil],
   currentHandMemory |-> [i \in DeckIdx |-> Nil],
   deck |-> [i \in DeckIdx |-> i + 1],
   playerCards |-> [i \in Slots |-> Nil],
   tableCards |-> [i \in DeckIdx |-> Nil],
   cardsCollectedByPlayer |-> 0,
   cardsCollectedByCPU |-> 0,
   cardsOnTable |-> 0,
   currentHandMemoryLength |-> 0,
   allPlayedCardsMemoryLength |-> 0,
   cpuPoint |-> 0,
   currentCard |-> 0,
   gameState |-> StateNotStarted,
   initialHiddenCards |-> <<>>,
   safeDiscardCandidate |-> Nil,
   initialPileCaptureMsg |-> <<>>,
   lastPlayedCPUCardIdx |-> 0,
   lastPlayedPlayerCard |-> 0,
   lastScorer |-> NoPlayer,
   level |-> LevelNotSelected,
   playerPoint |-> 0,
   canUndo |-> FALSE,
   isInitialPile |-> FALSE,
   undoState |-> ZeroUndoState]

----------------------------------------------------------------------------
(* The engine's random source.  rng.Intn(n) is modelled as a raw draw r    *)
(* reduced to 0..n-1; the draws are inputs of the operations.  A shuffle   *)
(* consumes DeckSize draws: RandSeq(seed) is the sequence that one seeding *)
(* of the source yields.                                                   *)

Intn(r, n) == r % n

RandSeq(seed) == [i \in DeckIdx |-> Intn(seed * 13 + i * (5 * seed + 32), DeckSize)]

\* shuffle: for i := 0; i < DeckSize; i++ { swap(deck[i], deck[rng.Intn(DeckSize)]) }
\* shuffleRange runs the iterations lo..hi-1 of the loop: the first half of
\* them, and on the deck d that they leave the second half
RECURSIVE shuffleRange(_, _, _, _)
shuffleRange(deck, rnd, lo, hi) ==
  IF lo >= hi THEN deck
  ELSE IF hi = lo + 1
  THEN [deck EXCEPT ![lo] = deck[rnd[lo]], ![rnd[lo]] = deck[lo]]
  ELSE CHOOSE r \in { shuffleRange(d, rnd, (lo + hi) \div 2, hi) :
                        d \in {shuffleRange(deck, rnd, lo, (lo + hi) \div 2)} } :
         TRUE

shuffleFrom(deck, rnd, i) == shuffleRange(deck, rnd, i, DeckSize)

shuffle(c, rnd) == [c EXCEPT !.deck = shuffleFrom(c.deck, rnd, 0)]

----------------------------------------------------------------------------
(* deal: 4 cards to the player, then 4 to the CPU. *)

\* a reset for the new hand that keeps the safe-discard hint
newHandReset_KeepsHint(c) ==
  [c EXCEPT
     !.currentHandMemory =
         [i \in DeckIdx |-> IF i < c.currentHandMemoryLength THEN Nil ELSE @[i]],
     !.currentHandMemoryLength = 0]

\* what deal resets for a hand that is not the first: the safe-discard hint
\* and the current-hand memory
newHandReset(c) ==
  [c EXCEPT
     !.safeDiscardCandidate = Nil,
     !.currentHandMemory =
         [i \in DeckIdx |-> IF i < c.currentHandMemoryLength THEN Nil ELSE @[i]],
     !.currentHandMemoryLength = 0]

\* deal that serves the CPU before the player
deal_CpuFirst(c) ==
  IF c.currentCard >= DeckSize THEN c
  ELSE
    LET c1 == IF ~c.isInitialPile THEN newHandReset(c) ELSE c
    IN  [c1 EXCEPT
           !.cpuCards = [i \in Slots |-> c1.deck[c1.currentCard + i]],
           !.playerCards = [i \in Slots |-> c1.deck[c1.currentCard + HandSize + i]],
           !.currentCard = @ + 2 * HandSize]

deal(c) ==
  IF c.currentCard >= DeckSize THEN c
  ELSE
    LET c1 == IF ~c.isInitialPile THEN newHandReset(c) ELSE c
    IN  [c1 EXCEPT
           !.playerCards = [i \in Slots |-> c1.deck[c1.currentCard + i]],
           !.cpuCards = [i \in Slots |-> c1.deck[c1.currentCard + HandSize + i]],
           !.currentCard = @ + 2 * HandSize]

resetGameInternal(c) ==
  [c EXCEPT
     !.gameState = StateNotStarted,
     !.level = LevelNotSelected,
     !.cardsCollectedByPlayer = 0,
     !.cardsCollectedByCPU = 0,
     !.cardsOnTable = 0,
     !.currentHandMemoryLength = 0,
     !.allPlayedCardsMemoryLength = 0,
     !.allPlayedCardsMemory = [i \in DeckIdx |-> Nil],
     !.cpuPoint = 0,
     !.playerPoint = 0,
     !.lastPlayedCPUCardIdx = -1,
     !.lastPlayedPlayerCard = -1,
     !.lastScorer = NoPlayer,
     !.isInitialPile = FALSE,
     !.canUndo = FALSE,
     !.currentCard = 0,
     !.safeDiscardCandidate = Nil,
     !.initialHiddenCards = <<>>,
     !.initialPileCaptureMsg = <<>>,
     !.playerCards = [i \in Slots |-> Nil],
     !.cpuCards = [i \in Slots |-> Nil],
     !.tableCards = [i \in DeckIdx |-> Nil],
     !.currentHandMemory = [i \in DeckIdx |-> Nil]]

\* StartGame: the new struct and the returned bool
StartGame(c, rnd) ==
  LET c0 == IF c.gameState # StateNotStarted THEN resetGameInternal(c) ELSE c
  IN  IF c0.level = LevelNotSelected
      THEN [c |-> c0, ret |-> FALSE]
      ELSE
        LET c1 == shuffle([c0 EXCEPT !.currentCard = 0], rnd)
            c2 == [c1 EXCEPT
                     !.playerPoint = 0,
                     !.cpuPoint = 0,
                     !.cardsCollectedByPlayer = 0,
                     !.safeDiscardCandidate = Nil,
                     !.cardsCollectedByCPU = 0,
                     !.cardsOnTable = HandSize,
                     !.currentHandMemoryLength = 0,
                     !.allPlayedCardsMemoryLength = 0,
                     !.gameState = StatePlayerTurn,
                     !.isInitialPile = TRUE,
                     !.lastPlayedCPUCardIdx = -1,
                     !.lastPlayedPlayerCard = -1,
                     !.tableCards = [i \in DeckIdx |->
                                       IF i < HandSize THEN c1.deck[i] ELSE @[i]],
                     !.initialHiddenCards =
                         <<c1.deck[0], c1.deck[1], c1.deck[2]>>,
                     !.currentCard = HandSize]
        IN  [c |-> deal(c2), ret |-> TRUE]

\* a reset that leaves the undo flag as it was
ResetGame_KeepsCanUndo(c) == [resetGameInternal(c) EXCEPT !.canUndo = c.canUndo]

ResetGame(c) == resetGameInternal(c)

SetLevel(c, level) ==
  IF level >= LevelNotSelected /\ level <= LevelAdvanced
  THEN [c EXCEPT !.level = level]
  ELSE c

----------------------------------------------------------------------------
(* Scoring. *)

CardPoint(card) ==
  CASE GetFace(card) = "Jack" -> 1
    [] GetFace(card) = "Ace" -> 1
    [] GetFace(card) = "Deuce" -> IF GetSuit(card) = "Clubs" THEN 2 ELSE 0
    [] GetFace(card) = "Ten" -> IF GetSuit(card) = "Diamonds" THEN 3 ELSE 0
    [] OTHER -> 0

\* the points of the cards at the positions lo..hi-1, added up half by half
RECURSIVE pointsIn(_, _, _)
pointsIn(tableCards, lo, hi) ==
  IF lo >= hi THEN 0
  ELSE IF hi = lo + 1 THEN CardPoint(tableCards[lo])
  ELSE pointsIn(tableCards, lo, (lo + hi) \div 2)
       + pointsIn(tableCards, (lo + hi) \div 2, hi)

pointsUpTo(tableCards, n) == pointsIn(tableCards, 0, n)

\* a calculator that counts the top two cards only
pointCalculator_TopTwo(c) ==
  pointsUpTo(c.tableCards, c.cardsOnTable)
  - pointsUpTo(c.tableCards, c.cardsOnTable - 2)

\* points of the cards currently on the table
pointCalculator(c) == pointsUpTo(c.tableCards, c.cardsOnTable)

getCardValue(card) == IF card = Nil THEN 0 ELSE CardPoint(card)

----------------------------------------------------------------------------
(* processTurn: one card play by either side. *)

\* a capture that forgets that a Jack takes any card
isCapture_NoJack(c, top, second) ==
  c.cardsOnTable > 1 /\ GetFace(top) = GetFace(second)

\* the scoring check: the played card is on the pile (c.cardsOnTable counts
\* it); top is that card and second the one beneath
isCapture(c, top, second) ==
  c.cardsOnTable > 1
  /\ (GetFace(top) = GetFace(second) \/ GetFace(top) = "Jack")

\* a Pisti test that takes any capture of two cards for a Pisti
isPisti_AnyPair(c, top, second) == c.cardsOnTable = 2

\* Pisti: the pile is exactly the matched card and the matching one
isPisti(c, top, second) ==
  c.cardsOnTable = 2 /\ GetFace(top) = GetFace(second)

capturePoints(c, top, second) ==
  IF isPisti(c, top, second)
  THEN (IF GetFace(top) = "Jack" THEN 20 ELSE 10)
  ELSE pointCalculator(c)

cardsCaptured(c, top, second) ==
  IF isPisti(c, top, second) THEN 2 ELSE c.cardsOnTable

\* a hint recorded at a Jack capture of either side
recordsSafeDiscard_AnyJack(playerID, top) == GetFace(top) = "Jack"

\* the capture records the card beneath as the safe-discard hint
recordsSafeDiscard(playerID, top) == playerID = Player /\ GetFace(top) = "Jack"

\* a message written for a capture of either side
writesCaptureMsg_Anyone(playerID) == TRUE

\* the capture of the initial pile writes the message naming the hidden cards
writesCaptureMsg(playerID) == playerID = Player

processTurn(c, playedCard, playerID) ==
  IF playedCard = Nil THEN c
  ELSE
    LET c1 == CASE c.level = LevelIntermediate
                   /\ c.currentHandMemoryLength < DeckSize ->
                     [c EXCEPT
                        !.currentHandMemory[c.currentHandMemoryLength] = playedCard,
                        !.currentHandMemoryLength = @ + 1]
                [] c.level = LevelAdvanced
                   /\ c.allPlayedCardsMemoryLength < DeckSize ->
                     [c EXCEPT
                        !.allPlayedCardsMemory[c.allPlayedCardsMemoryLength] = playedCard,
                        !.allPlayedCardsMemoryLength = @ + 1]
                [] OTHER -> c
        c2 == [c1 EXCEPT !.tableCards[c1.cardsOnTable] = playedCard,
                         !.cardsOnTable = @ + 1]
        top == c2.tableCards[c2.cardsOnTable - 1]
        second == c2.tableCards[c2.cardsOnTable - 2]
        noCapture == [c2 EXCEPT !.gameState = IF playerID = Player
                                               THEN StateCPUTurn
                                               ELSE StatePlayerTurn]
    IN  IF isCapture(c2, top, second)
        THEN
          LET c3 == IF recordsSafeDiscard(playerID, top)
                    THEN [c2 EXCEPT !.safeDiscardCandidate = second]
                    ELSE c2
              c4 == IF c3.initialHiddenCards # <<>>
                    THEN [c3 EXCEPT
                            !.initialPileCaptureMsg =
                                IF writesCaptureMsg(playerID)
                                THEN <<GetFace(c3.initialHiddenCards[1]),
                                       GetFace(c3.initialHiddenCards[2]),
                                       GetFace(c3.initialHiddenCards[3])>>
                                ELSE @,
                            !.initialHiddenCards = <<>>]
                    ELSE c3
              points == capturePoints(c4, top, second)
              cardsCollected == cardsCaptured(c4, top, second)
              c5 == IF playerID = Player
                    THEN [c4 EXCEPT !.playerPoint = @ + points,
                                    !.cardsCollectedByPlayer = @ + cardsCollected]
                    ELSE [c4 EXCEPT !.cpuPoint = @ + points,
                                    !.cardsCollectedByCPU = @ + cardsCollected]
          IN  [c5 EXCEPT !.gameState = StatePileCaptured,
                         !.lastScorer = playerID]
        ELSE noCapture

----------------------------------------------------------------------------
(* The CPU's strategy (pure selection of a hand slot; -1 is "no move"). *)

findMatchingCard(c, face) ==
  LET S == {i \in Slots : c.cpuCards[i] # Nil /\ GetFace(c.cpuCards[i]) = face}
  IN  IF S = {} THEN -1 ELSE MinOf(S)

findJack(c) == findMatchingCard(c, "Jack")

\* a choice among the non-Jacks that depends on the player's last slot
findRandomNonJack_Peeks(c, r) ==
  LET S == {i \in Slots : c.cpuCards[i] # Nil /\ GetFace(c.cpuCards[i]) # "Jack"}
      cardsToPlay == [k \in 0..(Cardinality(S) - 1) |->
                        CHOOSE i \in S : Cardinality({j \in S : j < i}) = k]
  IN  IF S # {}
      THEN cardsToPlay[Intn(r + c.lastPlayedPlayerCard + 1, Cardinality(S))]
      ELSE -1

\* the slots holding a non-Jack, in slot order; r is the draw of rng.Intn
findRandomNonJack(c, r) ==
  LET S == {i \in Slots : c.cpuCards[i] # Nil /\ GetFace(c.cpuCards[i]) # "Jack"}
      cardsToPlay == [k \in 0..(Cardinality(S) - 1) |->
                        CHOOSE i \in S : Cardinality({j \in S : j < i}) = k]
  IN  IF S # {} THEN cardsToPlay[Intn(r, Cardinality(S))] ELSE -1

\* a capture move that prefers a Jack to a card of the top card's face
tryCaptureMove_JackFirst(c) ==
  IF c.cardsOnTable > 0
  THEN LET topCardFace == GetFace(c.tableCards[c.cardsOnTable - 1])
       IN  IF findJack(c) # -1
           THEN findJack(c)
           ELSE findMatchingCard(c, topCardFace)
  ELSE -1

tryCaptureMove(c) ==
  IF c.cardsOnTable > 0
  THEN LET topCardFace == GetFace(c.tableCards[c.cardsOnTable - 1])
       IN  IF findMatchingCard(c, topCardFace) # -1
           THEN findMatchingCard(c, topCardFace)
           ELSE findJack(c)
  ELSE -1

trySafeDiscard(c) ==
  IF c.safeDiscardCandidate # Nil
  THEN findMatchingCard(c, GetFace(c.safeDiscardCandidate))
  ELSE -1

cpuActionBeginner(c) == tryCaptureMove(c)

\* face counts that leave out the current-hand memory
faceCounts_HandOnly(c, face) ==
  IF face = "Jack" THEN 0
  ELSE Cardinality({i \in Slots : c.cpuCards[i] # Nil
                                  /\ GetFace(c.cpuCards[i]) = face})

\* faceCounts[face]: non-Jack cards of that face in the CPU's hand and in
\* the current-hand memory
faceCounts(c, face) ==
  IF face = "Jack" THEN 0
  ELSE Cardinality({i \in Slots : c.cpuCards[i] # Nil
                                  /\ GetFace(c.cpuCards[i]) = face})
       + Cardinality({i \in 0..(c.currentHandMemoryLength - 1) :
                        c.currentHandMemory[i] # Nil
                        /\ GetFace(c.currentHandMemory[i]) = face})

cpuActionIntermediate(c) ==
  IF tryCaptureMove(c) # -1 THEN tryCaptureMove(c)
  ELSE IF trySafeDiscard(c) # -1 THEN trySafeDiscard(c)
  ELSE
    LET held == {i \in Slots : c.cpuCards[i] # Nil}
        cnt(i) == faceCounts(c, GetFace(c.cpuCards[i]))
        \* the first slot, in slot order, whose count is the maximum (> 1)
        best == {i \in held : /\ cnt(i) > 1
                              /\ \A j \in held : cnt(j) <= cnt(i)}
    IN  IF best # {}
        THEN findMatchingCard(c, GetFace(c.cpuCards[MinOf(best)]))
        ELSE -1

\* a match number that leaves out the other cards of the hand
matchNumber_MemoryOnly(c, i) ==
  Cardinality({j \in 0..(c.allPlayedCardsMemoryLength - 1) :
                 c.allPlayedCardsMemory[j] # Nil
                 /\ GetFace(c.allPlayedCardsMemory[j]) = GetFace(c.cpuCards[i])})

matchNumber(c, i) ==
  Cardinality({j \in 0..(c.allPlayedCardsMemoryLength - 1) :
                 c.allPlayedCardsMemory[j] # Nil
                 /\ GetFace(c.allPlayedCardsMemory[j]) = GetFace(c.cpuCards[i])})
  + Cardinality({j \in Slots : j # i /\ c.cpuCards[j] # Nil
                               /\ GetFace(c.cpuCards[j]) = GetFace(c.cpuCards[i])})

cpuActionAdvanced(c) ==
  IF tryCaptureMove(c) # -1 THEN tryCaptureMove(c)
  ELSE IF trySafeDiscard(c) # -1 THEN trySafeDiscard(c)
  ELSE
    LET nonJack == {i \in Slots : c.cpuCards[i] # Nil
                                  /\ GetFace(c.cpuCards[i]) # "Jack"}
        \* first slot with the greatest match number, if that is positive
        bestMatch == {i \in nonJack :
                        /\ matchNumber(c, i) > 0
                        /\ \A j \in nonJack : matchNumber(c, j) <= matchNumber(c, i)}
        \* first slot with the least card value
        least == {i \in nonJack :
                    \A j \in nonJack :
                       getCardValue(c.cpuCards[i]) <= getCardValue(c.cpuCards[j])}
    IN  IF bestMatch # {} THEN MinOf(bestMatch)
        ELSE IF least # {} THEN MinOf(least)
        ELSE -1

\* CPUaction whose fallback is the first occupied slot, Jack or not
CPUaction_FirstCard(c, r) ==
  LET cardIdx == CASE c.level = LevelBeginner -> cpuActionBeginner(c)
                   [] c.level = LevelIntermediate -> cpuActionIntermediate(c)
                   [] c.level = LevelAdvanced -> cpuActionAdvanced(c)
                   [] OTHER -> -1
      occupied == {i \in Slots : c.cpuCards[i] # Nil}
  IN  IF cardIdx = -1
      THEN IF occupied # {} THEN MinOf(occupied) ELSE cardIdx
      ELSE cardIdx

CPUaction(c, r) ==
  LET cardIdx == CASE c.level = LevelBeginner -> cpuActionBeginner(c)
                   [] c.level = LevelIntermediate -> cpuActionIntermediate(c)
                   [] c.level = LevelAdvanced -> cpuActionAdvanced(c)
                   [] OTHER -> -1
      occupied == {i \in Slots : c.cpuCards[i] # Nil}
  IN  IF cardIdx = -1
      THEN IF findRandomNonJack(c, r) # -1 THEN findRandomNonJack(c, r)
           ELSE IF occupied # {} THEN MinOf(occupied)
           ELSE cardIdx
      ELSE cardIdx

\* a selection that uses up the safe-discard hint
afterCPUaction_ClearsHint(c, r) == [c EXCEPT !.safeDiscardCandidate = Nil]

\* the struct after CPUaction has returned: neither CPUaction nor any of
\* the functions it calls assigns to a field
afterCPUaction(c, r) == c

----------------------------------------------------------------------------
(* The turn-taking operations. *)

playerPlays(c, playedCardIdx) ==
  LET c1 == IF c.level # LevelAdvanced
            THEN [c EXCEPT !.undoState =
                    [playerPoint |-> c.playerPoint,
                     cpuPoint |-> c.cpuPoint,
                     lastScorer |-> c.lastScorer,
                     cardsCollectedByPlayer |-> c.cardsCollectedByPlayer,
                     cardsCollectedByCPU |-> c.cardsCollectedByCPU,
                     cardsOnTable |-> c.cardsOnTable,
                     tableCards |-> SliceCopy(c.tableCards, c.cardsOnTable),
                     playerCards |-> SliceCopy(c.playerCards, HandSize),
                     cpuCards |-> SliceCopy(c.cpuCards, HandSize),
                     isInitialPile |-> c.isInitialPile,
                     initialHiddenCards |-> c.initialHiddenCards,
                     safeDiscardCandidate |-> c.safeDiscardCandidate,
                     currentHandMemory |->
                         SliceCopy(c.currentHandMemory, c.currentHandMemoryLength),
                     currentHandMemoryLength |-> c.currentHandMemoryLength]]
            ELSE c
      playerPlayedCard == c1.playerCards[playedCardIdx]
  IN  IF playerPlayedCard = Nil THEN c1
      ELSE
        LET c2 == [c1 EXCEPT !.lastPlayedPlayerCard = playedCardIdx,
                             !.playerCards[playedCardIdx] = Nil]
            c3 == processTurn(c2, playerPlayedCard, Player)
        IN  [c3 EXCEPT !.isInitialPile = FALSE]

cpuPlays(c, r) ==
  IF \A i \in Slots : c.cpuCards[i] = Nil THEN c
  ELSE
    LET idx0 == CPUaction(c, r)
        idx == IF idx0 = -1
               THEN MinOf({i \in Slots : c.cpuCards[i] # Nil})
               ELSE idx0
        c1 == [afterCPUaction(c, r) EXCEPT !.lastPlayedCPUCardIdx = idx]
        cpuPlayedCard == c1.cpuCards[idx]
    IN  IF cpuPlayedCard # Nil
        THEN [processTurn([c1 EXCEPT !.cpuCards[idx] = Nil], cpuPlayedCard, CPU)
                EXCEPT !.canUndo = TRUE]
        ELSE c1

\* finalizeCapture that leaves the pile counted
finalizeCapture_KeepsPile(c) ==
  IF c.gameState # StateGameOver
  THEN [c EXCEPT !.gameState = StatePlayerTurn]
  ELSE c

finalizeCapture(c) ==
  LET c1 == [c EXCEPT !.cardsOnTable = 0]
  IN  IF c1.gameState # StateGameOver
      THEN [c1 EXCEPT !.gameState = StatePlayerTurn]
      ELSE c1

isHandFinished(c) == \A i \in Slots : c.playerCards[i] = Nil

\* awardFinalPile that gives the pile to the player when nobody has scored
awardFinalPile_DefaultPlayer(c) ==
  IF c.cardsOnTable <= 0 THEN c
  ELSE
    LET pointsFromLastPile == pointCalculator(c)
    IN  IF c.lastScorer # CPU
        THEN [c EXCEPT !.playerPoint = @ + pointsFromLastPile,
                       !.cardsCollectedByPlayer = @ + c.cardsOnTable,
                       !.cardsOnTable = 0]
        ELSE [c EXCEPT !.cpuPoint = @ + pointsFromLastPile,
                       !.cardsCollectedByCPU = @ + c.cardsOnTable,
                       !.cardsOnTable = 0]

awardFinalPile(c) ==
  IF c.cardsOnTable <= 0 THEN c
  ELSE
    LET pointsFromLastPile == pointCalculator(c)
    IN  IF c.lastScorer = Player
        THEN [c EXCEPT !.playerPoint = @ + pointsFromLastPile,
                       !.cardsCollectedByPlayer = @ + c.cardsOnTable,
                       !.cardsOnTable = 0]
        ELSE [c EXCEPT !.cpuPoint = @ + pointsFromLastPile,
                       !.cardsCollectedByCPU = @ + c.cardsOnTable,
                       !.cardsOnTable = 0]

\* an end of game that gives the player the bonus in a tie as well
handleEndOfGame_TieToPlayer(c) ==
  LET c1 == [awardFinalPile(c) EXCEPT !.gameState = StateGameOver]
  IN  IF c1.cardsCollectedByPlayer >= c1.cardsCollectedByCPU
      THEN [c1 EXCEPT !.playerPoint = @ + 3]
      ELSE [c1 EXCEPT !.cpuPoint = @ + 3]

handleEndOfGame(c) ==
  LET c1 == [awardFinalPile(c) EXCEPT !.gameState = StateGameOver]
  IN  IF c1.cardsCollectedByPlayer > c1.cardsCollectedByCPU
      THEN [c1 EXCEPT !.playerPoint = @ + 3]
      ELSE IF c1.cardsCollectedByCPU > c1.cardsCollectedByPlayer
      THEN [c1 EXCEPT !.cpuPoint = @ + 3]
      ELSE c1

\* an end of hand that deals nothing
handleEndOfHand_NoDeal(c) == [c EXCEPT !.gameState = StatePlayerTurn]

handleEndOfHand(c) == [deal(c) EXCEPT !.gameState = StatePlayerTurn]

\* checkEndOfHand without its guard against a game that is over
checkEndOfHand_NoGuard(c) ==
  IF isHandFinished(c)
  THEN IF c.currentCard = DeckSize THEN handleEndOfGame(c)
       ELSE handleEndOfHand(c)
  ELSE c

checkEndOfHand(c) ==
  IF c.gameState = StateGameOver THEN c
  ELSE IF isHandFinished(c)
  THEN IF c.currentCard = DeckSize THEN handleEndOfGame(c)
       ELSE handleEndOfHand(c)
  ELSE c

\* the restoring part of undoImplementation: every snapshot field is
\* written back, stale table and memory slots above the restored lengths
\* are cleared
\* a restore that forgets the length of the current-hand memory
restoreSnapshot_KeepsMemoryLength(c) ==
  [c EXCEPT
     !.playerCards = CopyInto(c.playerCards, c.undoState.playerCards),
     !.cpuCards = CopyInto(c.cpuCards, c.undoState.cpuCards),
     !.cardsOnTable = c.undoState.cardsOnTable]

restoreSnapshot(c) ==
  LET u == c.undoState
      table == ClearRun(CopyInto(c.tableCards, u.tableCards), u.cardsOnTable)
      memory == ClearRun(CopyInto(c.currentHandMemory, u.currentHandMemory),
                         u.currentHandMemoryLength)
  IN  [c EXCEPT
         !.playerPoint = u.playerPoint,
         !.cpuPoint = u.cpuPoint,
         !.lastScorer = u.lastScorer,
         !.cardsCollectedByPlayer = u.cardsCollectedByPlayer,
         !.cardsCollectedByCPU = u.cardsCollectedByCPU,
         !.cardsOnTable = u.cardsOnTable,
         !.tableCards = table,
         !.playerCards = CopyInto(c.playerCards, u.playerCards),
         !.cpuCards = CopyInto(c.cpuCards, u.cpuCards),
         !.initialHiddenCards = u.initialHiddenCards,
         !.safeDiscardCandidate = u.safeDiscardCandidate,
         !.isInitialPile = u.isInitialPile,
         !.currentHandMemoryLength = u.currentHandMemoryLength,
         !.currentHandMemory = memory]

\* undoImplementation that forgets to restore the player's hand
undoImplementation_KeepsHand(c) ==
  IF ~c.canUndo THEN [c |-> c, ret |-> FALSE]
  ELSE [c |-> [restoreSnapshot(c) EXCEPT !.playerCards = c.playerCards,
                                         !.canUndo = FALSE],
        ret |-> TRUE]

\* undoImplementation that leaves the can-undo flag set
undoImplementation_KeepsCanUndo(c) ==
  IF ~c.canUndo THEN [c |-> c, ret |-> FALSE]
  ELSE [c |-> restoreSnapshot(c), ret |-> TRUE]

\* undoImplementation: the new struct and the returned bool
undoImplementation(c) ==
  IF ~c.canUndo THEN [c |-> c, ret |-> FALSE]
  ELSE [c |-> [restoreSnapshot(c) EXCEPT !.canUndo = FALSE], ret |-> TRUE]

----------------------------------------------------------------------------
(* The driver calls the operations in any order and with any argument: the *)
(* engine has no other protection than what each operation checks itself.  *)
(* lastOp, prevOp, pre, started, snapshotInGame and steps are history      *)
(* variables; the engine does not read them.                               *)

Levels == LevelNotSelected..(LevelAdvanced + 1)   \* the last one is invalid

\* the zero value of sync.Mutex
Unlocked == 0

Goroutines == 1..NumGoroutines

\* a goroutine that is not inside a call.  seen is the engine as the
\* operation body read it; early tells that the last call left through a
\* return statement before the end of the body
Idle == [at |-> "idle", op |-> "none", arg |-> -1, seen |-> NewCasino, early |-> FALSE]

\* the driver of Spec and SpecInGame calls one operation at a time
NoGoroutines ==
  /\ mu = Unlocked
  /\ pc = [t \in Goroutines |-> Idle]

HeldCards(hand) == Cardinality({i \in DOMAIN hand : hand[i] # Nil})

\* class of an operation for prevOp
OpClass(op) ==
  CASE op.op = "playerPlays" /\ pre.c.playerCards[op.arg] # Nil -> "play"
    [] op.op = "undo" /\ op.ret -> "undoOk"
    [] OTHER -> "other"

\* the AppUI of a driver that calls the engine itself: no timer is pending
\* and no game is being clicked through
NoTimers ==
  [isAnimating |-> FALSE, cpuTimers |-> 0, finalizeTimers |-> 0,
   checkTimers |-> 0, playerMoves |-> 0, cpuMoves |-> 0, hands |-> 0,
   picks |-> <<>>, lucks |-> <<>>]

NoUI == ui = NoTimers

\* the history of one more operation
Logged(op, arg, ret) ==
  /\ steps' = steps + 1
  /\ lastOp' = [op |-> op, arg |-> arg, ret |-> ret]
  /\ prevOp' = OpClass(lastOp)
  /\ UNCHANGED <<mu, pc>>

Called(op, arg, ret) ==
  /\ steps < MaxSteps
  /\ Logged(op, arg, ret)
  /\ UNCHANGED ui

Init ==
  /\ casino = NewCasino
  /\ lastOp = [op |-> "NewCasino", arg |-> -1, ret |-> TRUE]
  /\ prevOp = "other"
  /\ pre = [c |-> NewCasino, arg |-> -1, snap |-> FALSE]
  /\ started = FALSE
  /\ snapshotInGame = FALSE
  /\ steps = 0
  /\ NoGoroutines
  /\ NoUI

OpStartGame ==
  \E seed \in 1..NumSeeds :
    LET r == StartGame(casino, RandSeq(seed))
    IN  /\ casino' = r.c
        /\ Called("StartGame", -1, r.ret)
        /\ started' = r.ret
        /\ snapshotInGame' = FALSE
        /\ UNCHANGED pre

OpResetGame ==
  /\ casino' = ResetGame(casino)
  /\ Called("ResetGame", -1, TRUE)
  /\ started' = FALSE
  /\ snapshotInGame' = FALSE
  /\ UNCHANGED pre

OpSetLevel ==
  \E level \in Levels :
    /\ casino' = SetLevel(casino, level)
    /\ Called("SetLevel", -1, TRUE)
    /\ UNCHANGED <<pre, started, snapshotInGame>>

OpPlayerPlays ==
  \E i \in Slots :
    /\ casino' = playerPlays(casino, i)
    /\ pre' = [c |-> casino, arg |-> i, snap |-> casino.level # LevelAdvanced]
    /\ snapshotInGame' = (snapshotInGame \/ casino.level # LevelAdvanced)
    /\ Called("playerPlays", i, TRUE)
    /\ UNCHANGED started

OpCpuPlays ==
  \E r \in Slots :
    /\ casino' = cpuPlays(casino, r)
    /\ Called("cpuPlays", -1, TRUE)
    /\ UNCHANGED <<pre, started, snapshotInGame>>

OpFinalizeCapture ==
  /\ casino' = finalizeCapture(casino)
  /\ Called("finalizeCapture", -1, TRUE)
  /\ UNCHANGED <<pre, started, snapshotInGame>>

OpCheckEndOfHand ==
  /\ casino' = checkEndOfHand(casino)
  /\ Called("checkEndOfHand", -1, TRUE)
  /\ UNCHANGED <<pre, started, snapshotInGame>>

OpUndo ==
  LET r == undoImplementation(casino)
  IN  /\ casino' = r.c
      /\ Called("undo", -1, r.ret)
      /\ UNCHANGED <<pre, started, snapshotInGame>>

Next ==
  \/ OpStartGame
  \/ OpResetGame
  \/ OpSetLevel
  \/ OpPlayerPlays
  \/ OpCpuPlays
  \/ OpFinalizeCapture
  \/ OpCheckEndOfHand
  \/ OpUndo

Spec == Init /\ [][Next]_vars

----------------------------------------------------------------------------
(* Games in progress.  The UI (src/audio.go) drives a game in rounds: a     *)
(* click on an occupied slot calls playerPlays, a timer then calls          *)
(* cpuPlays, a timer finalizes a capture that is on display, and a timer    *)
(* calls checkEndOfHand once the player's hand is empty.  A game g is the   *)
(* level, the draws of the shuffle, the slots the player clicks (the lowest *)
(* occupied slot once g.picks is used up) and the draws of the CPU's random *)
(* choices (0 once g.lucks is used up).  Playout(g, n) is the engine,       *)
(* with the history that the driver keeps, after the first n operations of  *)
(* that game.                                                               *)

\* OpClass for an operation and the pre record of its time
OpClassIn(op, p) ==
  CASE op.op = "playerPlays" /\ p.c.playerCards[op.arg] # Nil -> "play"
    [] op.op = "undo" /\ op.ret -> "undoOk"
    [] OTHER -> "other"

\* the record of one operation of a game: the engine after it, the history,
\* the side that played last in this hand, the player's moves and the
\* operations so far
Did(w, op, arg, c2, mover, moves) ==
  [c |-> c2,
   lastOp |-> [op |-> op, arg |-> arg, ret |-> TRUE],
   prevOp |-> OpClassIn(w.lastOp, w.pre),
   pre |-> IF op = "playerPlays"
           THEN [c |-> w.c, arg |-> arg, snap |-> w.c.level # LevelAdvanced]
           ELSE w.pre,
   snapshotInGame |-> (w.snapshotInGame
                       \/ (op = "playerPlays" /\ w.c.level # LevelAdvanced)),
   mover |-> mover,
   moves |-> moves,
   ops |-> w.ops + 1]

\* the slot clicked in the player's m-th move
PlayerPick(c, g, m) ==
  IF m <= Len(g.picks) /\ c.playerCards[g.picks[m]] # Nil
  THEN g.picks[m]
  ELSE MinOf({i \in Slots : c.playerCards[i] # Nil})

\* the draw of the CPU's m-th move
CpuLuck(g, m) == IF m <= Len(g.lucks) THEN g.lucks[m] ELSE 0

\* SetLevel and StartGame of a new engine
GameStart(g) ==
  [c |-> StartGame(SetLevel(NewCasino, g.level), g.draws).c,
   lastOp |-> [op |-> "StartGame", arg |-> -1, ret |-> TRUE],
   prevOp |-> "other",
   pre |-> [c |-> NewCasino, arg |-> -1, snap |-> FALSE],
   snapshotInGame |-> FALSE,
   mover |-> NoPlayer,
   moves |-> 0,
   ops |-> 0]

\* the next operation of the UI's schedule
UIStep(w, g) ==
  IF w.c.gameState = StateGameOver THEN w
  ELSE IF w.c.gameState = StatePileCaptured
  THEN Did(w, "finalizeCapture", -1, finalizeCapture(w.c), w.mover, w.moves)
  ELSE IF w.mover = Player
  THEN Did(w, "cpuPlays", -1, cpuPlays(w.c, CpuLuck(g, w.moves)), CPU, w.moves)
  ELSE IF w.mover = CPU /\ isHandFinished(w.c)
  THEN Did(w, "checkEndOfHand", -1, checkEndOfHand(w.c), NoPlayer, w.moves)
  ELSE LET i == PlayerPick(w.c, g, w.moves + 1)
       IN  Did(w, "playerPlays", i, playerPlays(w.c, i), Player, w.moves + 1)

\* n more operations of game g from w, or as many as lead to GameOver
\* (UIStep leaves a game that is over as it is): the first half of them, and
\* from the record v that they leave the second half
RECURSIVE PlayFrom(_, _, _)
PlayFrom(w, g, n) ==
  IF n <= 0 THEN w
  ELSE IF n = 1 THEN UIStep(w, g)
  ELSE CHOOSE r \in { PlayFrom(v, g, n - (n \div 2)) :
                        v \in {PlayFrom(w, g, n \div 2)} } :
         TRUE

Playout(g, n) ==
  CHOOSE r \in { PlayFrom(s, g, n) : s \in {GameStart(g)} } : TRUE

\* no game has more operations: 48 plays, a finalizeCapture after a play,
\* 6 checkEndOfHand
MaxOps == 2 * DeckSize

\* the number of operations of game g up to GameOver
GameLength(g) == Playout(g, MaxOps).ops

\* the draws that make the shuffle of a new deck put the cards of top, in
\* that order, at the deck positions 0..Len(top)-1: draw i is the position
\* of the wanted card, and the draws after them are i itself (no swap)
\* st is the deck and the draws so far; DrawsRange adds the draws lo..hi-1,
\* half by half
RECURSIVE DrawsRange(_, _, _, _)
DrawsRange(st, top, lo, hi) ==
  IF lo >= hi THEN st
  ELSE IF hi = lo + 1
  THEN LET j == CHOOSE j \in DeckIdx : st.deck[j] = top[lo + 1]
       IN  [deck |-> [st.deck EXCEPT ![lo] = st.deck[j], ![j] = st.deck[lo]],
            draws |-> Append(st.draws, j)]
  ELSE CHOOSE r \in { DrawsRange(v, top, (lo + hi) \div 2, hi) :
                        v \in {DrawsRange(st, top, lo, (lo + hi) \div 2)} } :
         TRUE

DrawsFrom(deck, top, i) ==
  DrawsRange([deck |-> deck, draws |-> <<>>], top, i, Len(top)).draws

DrawsFor(top) ==
  LET d == DrawsFrom(NewCasino.deck, top, 0)
  IN  IF Len(d) < DeckSize
      THEN [i \in DeckIdx |-> IF i < Len(d) THEN d[i + 1] ELSE i]
      ELSE [i \in DeckIdx |-> d[i + 1]]

\* a Beginner game in which the CPU captures with each of its four cards:
\* table Q, K, 9, 5 of Hearts; the player holds 6, J, 7, 8 of Hearts and
\* plays them in that order; the CPU holds 6 and J of Diamonds, 7 of
\* Diamonds and J of Clubs
PistiGame ==
  [level |-> LevelBeginner,
   draws |-> DrawsFor(<<12, 13, 9, 5,  6, 11, 7, 8,  19, 24, 20, 37>>),
   picks |-> <<0, 1, 2, 3>>,
   lucks |-> <<>>,
   cuts |-> 0..12]

\* a Beginner game in which the player captures the initial pile with the
\* 5 of Diamonds and then holds the Deuce of Clubs, a Jack and an Ace while
\* the CPU, holding no Jack, leads the Ace of Hearts and then the Ten of
\* Diamonds
SevenGame ==
  [level |-> LevelBeginner,
   draws |-> DrawsFor(<<12, 13, 9, 5,  18, 28, 11, 14,  1, 23, 16, 17>>),
   picks |-> <<0, 1, 2, 3>>,
   lucks |-> <<>>,
   cuts |-> 0..6]

\* an Intermediate game in which nobody captures in the first two rounds:
\* table Q, K, 9, 5 of Hearts; the player holds A, 2, 3, 4 of Hearts; the
\* CPU holds 6, 7, 8 of Diamonds and the 7 of Clubs
CountGame ==
  [level |-> LevelIntermediate,
   draws |-> DrawsFor(<<12, 13, 9, 5,  1, 2, 3, 4,  19, 20, 21, 33>>),
   picks |-> <<0, 1, 2, 3>>,
   lucks |-> <<>>,
   cuts |-> 0..4]

\* an Advanced game whose first round nobody captures: table Q, K, 9, 5 of
\* Hearts; the player holds 2, 3, 4, 6 of Hearts; the CPU holds the Ace, 7,
\* 8 and Ten of Diamonds
ValueGame ==
  [level |-> LevelAdvanced,
   draws |-> DrawsFor(<<12, 13, 9, 5,  2, 3, 4, 6,  14, 20, 21, 23>>),
   picks |-> <<0, 1, 2, 3>>,
   lucks |-> <<>>,
   cuts |-> 0..2]

\* an Intermediate game in which the player captures the initial pile with
\* a Jack played onto a Jack: table Q, K, 9, J of Hearts; the player holds
\* the Jack of Diamonds and 2, 3, 4 of Hearts; the CPU holds the 6 of
\* Diamonds, the Jack of Clubs and the 7 and 8 of Diamonds
JackGame ==
  [level |-> LevelIntermediate,
   draws |-> DrawsFor(<<12, 13, 9, 11,  24, 2, 3, 4,  19, 37, 20, 21>>),
   picks |-> <<0, 1, 2, 3>>,
   lucks |-> <<>>,
   cuts |-> 0..3]

\* a deck on which no card captures: the four Jacks are the initial pile,
\* and in each of the six hands the player holds the four cards of one face
\* (Ace to Six) and the CPU the four cards of another (Seven to Ten, Queen,
\* King)
NoCaptureDeck ==
  [k \in 1..DeckSize |->
     IF k <= HandSize THEN 11 + 13 * (k - 1)
     ELSE LET hand == (k - HandSize - 1) \div (2 * HandSize)
              j == (k - HandSize - 1) % (2 * HandSize)
          IN  IF j < HandSize THEN (hand + 1) + 13 * j
              ELSE <<7, 8, 9, 10, 12, 13>>[hand + 1] + 13 * (j - HandSize)]

\* the Beginner game on that deck: nobody scores before the deck is used up
NoCaptureGame ==
  [level |-> LevelBeginner,
   draws |-> DrawsFor(NoCaptureDeck),
   picks |-> <<>>,
   lucks |-> <<>>,
   cuts |-> {}]

\* the games of a shuffle seed: at each level, the player clicking the
\* first or the last slot whenever it is occupied; taken up in their last
\* operations and at regular distances before
SeededGames ==
  { [level |-> lvl, draws |-> RandSeq(seed),
     picks |-> [m \in 1..(DeckSize \div 2) |-> slot], lucks |-> <<>>,
     cuts |-> {}] :
      seed \in 1..NumSeeds,
      lvl \in LevelBeginner..LevelAdvanced,
      slot \in {0, HandSize - 1} }

ClosingCuts(g) == UNION {(n - ClosingOps)..n : n \in {GameLength(g)}}

MidCuts(g) == {n \in 1..GameLength(g) : n % CutEvery = 0}

Games ==
  {PistiGame, SevenGame, CountGame, ValueGame, JackGame}
  \cup {[NoCaptureGame EXCEPT !.cuts = ClosingCuts(NoCaptureGame)]}
  \cup {[g EXCEPT !.cuts = ClosingCuts(g) \cup MidCuts(g)] : g \in SeededGames}

\* the driver takes up a game in progress and from there calls the
\* operations in any order, as in Spec
InitInGame ==
  \E g \in Games : \E n \in g.cuts : \E w \in {Playout(g, n)} :
    /\ casino = w.c
    /\ lastOp = w.lastOp
    /\ prevOp = w.prevOp
    /\ pre = w.pre
    /\ started = TRUE
    /\ snapshotInGame = w.snapshotInGame
    /\ steps = MaxSteps - FreeOps
    /\ NoGoroutines
    /\ NoUI

SpecInGame == InitInGame /\ [][Next]_vars

----------------------------------------------------------------------------
(* Concurrent calls.  The UI thread and the timers of src/audio.go call     *)
(* the operations from different goroutines.  Each of the eight operations  *)
(* begins with c.mu.Lock() and defer c.mu.Unlock(): a goroutine waits at     *)
(* Lock until the mutex is free, runs the body (it reads the engine, then  *)
(* writes what the operation computes from what it read) and unlocks when  *)
(* the function returns, by whichever return statement.  sync.Mutex is not *)
(* re-entrant: a goroutine that calls Lock on a mutex it holds waits for    *)
(* ever.                                                                    *)

\* the methods of Casino that lock the mutex
LockingFunctions ==
  {"StartGame", "ResetGame", "SetLevel", "playerPlays", "cpuPlays",
   "finalizeCapture", "checkEndOfHand", "undoImplementation"}

\* the methods of Casino that a method's body calls
CalledBy(fn) ==
  CASE fn = "StartGame" -> {"resetGameInternal", "shuffle", "deal"}
    [] fn = "ResetGame" -> {"resetGameInternal"}
    [] fn = "playerPlays" -> {"processTurn"}
    [] fn = "cpuPlays" -> {"CPUaction", "processTurn"}
    [] fn = "checkEndOfHand" -> {"isHandFinished", "handleEndOfGame", "handleEndOfHand"}
    [] fn = "processTurn" -> {"pointCalculator"}
    [] fn = "handleEndOfGame" -> {"awardFinalPile"}
    [] fn = "handleEndOfHand" -> {"deal"}
    [] fn = "awardFinalPile" -> {"pointCalculator"}
    [] fn = "CPUaction" -> {"cpuActionBeginner", "cpuActionIntermediate",
                            "cpuActionAdvanced", "findRandomNonJack"}
    [] fn = "cpuActionBeginner" -> {"tryCaptureMove"}
    [] fn = "cpuActionIntermediate" -> {"tryCaptureMove", "trySafeDiscard", "findMatchingCard"}
    [] fn = "cpuActionAdvanced" -> {"tryCaptureMove", "trySafeDiscard"}
    [] fn = "tryCaptureMove" -> {"findMatchingCard", "findJack"}
    [] fn = "trySafeDiscard" -> {"findMatchingCard"}
    [] OTHER -> {}

\* every method that runs, directly or not, inside a call of fn
RECURSIVE RunsInside(_)
RunsInside(fn) == CalledBy(fn) \cup UNION {RunsInside(g) : g \in CalledBy(fn)}

\* Lock succeeds on a mutex in state m
TryLock_Always(m) == TRUE

TryLock(m) == m = Unlocked

\* the calls the goroutines make
ConcurrentCalls ==
  {[op |-> "StartGame", arg |-> 1],
   [op |-> "ResetGame", arg |-> -1],
   [op |-> "SetLevel", arg |-> LevelIntermediate],
   [op |-> "cpuPlays", arg |-> 0],
   [op |-> "finalizeCapture", arg |-> -1],
   [op |-> "checkEndOfHand", arg |-> -1],
   [op |-> "undoImplementation", arg |-> -1]}
  \cup {[op |-> "playerPlays", arg |-> i] : i \in Slots}

\* the engine that the body of op leaves, having read the engine c
BodyOf(op, arg, c) ==
  CASE op = "StartGame" -> StartGame(c, RandSeq(arg)).c
    [] op = "ResetGame" -> ResetGame(c)
    [] op = "SetLevel" -> SetLevel(c, arg)
    [] op = "playerPlays" -> playerPlays(c, arg)
    [] op = "cpuPlays" -> cpuPlays(c, arg)
    [] op = "finalizeCapture" -> finalizeCapture(c)
    [] op = "checkEndOfHand" -> checkEndOfHand(c)
    [] op = "undoImplementation" -> undoImplementation(c).c

\* the body of op leaves through a return statement before its end
ReturnsEarly(op, arg, c) ==
  CASE op = "StartGame" -> c.gameState # StateNotStarted \/ c.level = LevelNotSelected
    [] op = "playerPlays" -> c.playerCards[arg] = Nil
    [] op = "cpuPlays" -> \A i \in Slots : c.cpuCards[i] = Nil
    [] op = "checkEndOfHand" -> c.gameState = StateGameOver
    [] op = "undoImplementation" -> ~c.canUndo
    [] OTHER -> FALSE

History == <<lastOp, prevOp, pre, started, snapshotInGame>>

\* goroutine t calls an operation and arrives at c.mu.Lock()
GoCall(t) ==
  /\ pc[t].at = "idle"
  /\ steps < MaxCalls
  /\ steps' = steps + 1
  /\ \E call \in ConcurrentCalls :
       pc' = [pc EXCEPT ![t] = [Idle EXCEPT !.at = "lock", !.op = call.op,
                                            !.arg = call.arg]]
  /\ UNCHANGED <<casino, mu, History, ui>>

\* c.mu.Lock() returns
GoLock(t) ==
  /\ pc[t].at = "lock"
  /\ TryLock(mu)
  /\ mu' = t
  /\ pc' = [pc EXCEPT ![t].at = "read"]
  /\ UNCHANGED <<casino, steps, History, ui>>

\* the body reads the engine; a body that called a locking method would
\* arrive at c.mu.Lock() again
GoRead(t) ==
  /\ pc[t].at = "read"
  /\ pc' = [pc EXCEPT ![t].seen = casino,
                      ![t].at = IF RunsInside(pc[t].op) \cap LockingFunctions # {}
                                THEN "lock" ELSE "write"]
  /\ UNCHANGED <<casino, mu, steps, History, ui>>

\* the body writes what it computes from what it read, and reaches a return
GoWrite(t) ==
  /\ pc[t].at = "write"
  /\ casino' = BodyOf(pc[t].op, pc[t].arg, pc[t].seen)
  /\ pc' = [pc EXCEPT ![t].at = "return",
                      ![t].early = ReturnsEarly(pc[t].op, pc[t].arg, pc[t].seen),
                      ![t].seen = NewCasino]
  /\ UNCHANGED <<mu, steps, History, ui>>

\* the function returns: the deferred c.mu.Unlock() runs
GoReturn(t) ==
  /\ pc[t].at = "return"
  /\ mu' = Unlocked
  /\ pc' = [pc EXCEPT ![t].at = "idle"]
  /\ UNCHANGED <<casino, steps, History, ui>>

NextLocked ==
  \E t \in Goroutines :
    \/ GoCall(t)
    \/ GoLock(t)
    \/ GoRead(t)
    \/ GoWrite(t)
    \/ GoReturn(t)

\* the goroutines start calling at the beginning of a game or in its
\* second round
InitLocked ==
  \E n \in {0, 2, 3} : \E w \in {Playout(PistiGame, n)} :
    /\ casino = w.c
    /\ lastOp = w.lastOp
    /\ prevOp = w.prevOp
    /\ pre = w.pre
    /\ started = TRUE
    /\ snapshotInGame = w.snapshotInGame
    /\ steps = 0
    /\ NoGoroutines
    /\ NoUI

SpecLocked == InitLocked /\ [][NextLocked]_vars

----------------------------------------------------------------------------
(* The UI's timers.  AppUI (src/audio.go) calls playerPlays on a click and  *)
(* the other operations from timers: cpuPlays 1000 ms after the click,      *)
(* finalizeCapture 500 ms after updateUI has shown a captured pile, and     *)
(* checkEndOfHand 500 ms after a cpuPlays that left the player's hand       *)
(* empty.  ui holds the flag isAnimating, the number of timers of each kind *)
(* that are pending, the cards each side has played, the hands dealt, and   *)
(* the slots the user will click (picks) with the draws of the CPU's random *)
(* choices (lucks).                                                         *)

\* updateUI: a pile on display starts a timer that will finalize the capture
updateUI(u, c) ==
  IF c.gameState = StatePileCaptured
  THEN [u EXCEPT !.finalizeTimers = @ + 1]
  ELSE u

\* the tap handler of card slot i, and AppUI.playerPlays
UIClick(i) ==
  /\ casino.playerCards[i] # Nil
  /\ ~ui.isAnimating
  /\ casino.gameState = StatePlayerTurn
  /\ \E c0 \in {[casino EXCEPT !.initialPileCaptureMsg = <<>>]} :
       /\ casino' = playerPlays(c0, i)
       /\ pre' = [c |-> c0, arg |-> i, snap |-> c0.level # LevelAdvanced]
       /\ snapshotInGame' = (snapshotInGame \/ c0.level # LevelAdvanced)
  /\ ui' = updateUI([ui EXCEPT !.isAnimating = TRUE,
                               !.cpuTimers = @ + 1,
                               !.playerMoves = @ + 1], casino')
  /\ Logged("playerPlays", i, TRUE)
  /\ UNCHANGED started

\* the timer of AppUI.playerPlays fires: handleCPUTurn, the CPU's random
\* choices drawing r
UITimerCPU(r) ==
  /\ ui.cpuTimers > 0
  /\ casino' = cpuPlays(casino, r)
  /\ \E u \in {updateUI([ui EXCEPT
                  !.cpuTimers = @ - 1,
                  !.cpuMoves = @ + HeldCards(casino.cpuCards)
                                 - HeldCards(casino'.cpuCards)], casino')} :
       ui' = IF isHandFinished(casino')
             THEN [u EXCEPT !.checkTimers = @ + 1]
             ELSE IF casino'.gameState = StatePileCaptured
             THEN u
             ELSE [u EXCEPT !.isAnimating = FALSE]
  /\ Logged("cpuPlays", -1, TRUE)
  /\ UNCHANGED <<pre, started, snapshotInGame>>

\* the timer of updateUI fires
UITimerFinalize ==
  /\ ui.finalizeTimers > 0
  /\ casino' = finalizeCapture(casino)
  /\ ui' = updateUI([ui EXCEPT !.finalizeTimers = @ - 1,
                               !.isAnimating = FALSE], casino')
  /\ Logged("finalizeCapture", -1, TRUE)
  /\ UNCHANGED <<pre, started, snapshotInGame>>

\* the timer of handleCPUTurn fires
UITimerCheck ==
  /\ ui.checkTimers > 0
  /\ casino' = checkEndOfHand(casino)
  /\ ui' = [updateUI([ui EXCEPT
                !.checkTimers = @ - 1,
                !.hands = @ + (IF casino'.currentCard > casino.currentCard
                               THEN 1 ELSE 0)], casino')
              EXCEPT !.isAnimating = FALSE]
  /\ Logged("checkEndOfHand", -1, TRUE)
  /\ UNCHANGED <<pre, started, snapshotInGame>>

\* updateUI enables the Undo button in these states only
undoButtonEnabled(c) ==
  /\ c.gameState \in {StatePlayerTurn, StateCPUTurn}
  /\ c.level # LevelAdvanced
  /\ c.canUndo

\* a click on the Undo button
UIUndo ==
  /\ undoButtonEnabled(casino)
  /\ \E r \in {undoImplementation(casino)} :
       /\ casino' = IF r.ret THEN [r.c EXCEPT !.initialPileCaptureMsg = <<>>]
                    ELSE r.c
       /\ ui' = IF r.ret THEN updateUI(ui, r.c) ELSE ui
       /\ Logged("undo", -1, r.ret)
  /\ UNCHANGED <<pre, started, snapshotInGame>>

\* the AppUI after the operations of w on the UI's schedule: the timers of
\* the last handler that have not fired yet
UIAfter(w) ==
  [isAnimating |->
     \/ w.lastOp.op = "playerPlays"
     \/ /\ w.lastOp.op = "cpuPlays"
        /\ w.prevOp = "play"
        /\ (isHandFinished(w.c) \/ w.c.gameState = StatePileCaptured),
   cpuTimers |-> IF w.mover = Player THEN 1 ELSE 0,
   finalizeTimers |-> IF w.c.gameState = StatePileCaptured THEN 1 ELSE 0,
   checkTimers |-> IF w.mover = CPU /\ isHandFinished(w.c) THEN 1 ELSE 0,
   playerMoves |-> w.moves,
   cpuMoves |-> IF w.mover = Player THEN w.moves - 1 ELSE w.moves,
   hands |-> (w.c.currentCard - HandSize) \div (2 * HandSize),
   picks |-> <<>>,
   lucks |-> <<>>]

\* a game in progress is taken up with its pending timers; from there the
\* user clicks any card and the Undo button when the UI lets them, and the
\* pending timers fire in any order
InitTimers ==
  \E g \in Games : \E n \in g.cuts : \E w \in {Playout(g, n)} :
    /\ casino = w.c
    /\ lastOp = w.lastOp
    /\ prevOp = w.prevOp
    /\ pre = w.pre
    /\ started = TRUE
    /\ snapshotInGame = w.snapshotInGame
    /\ steps = MaxSteps - FreeOps
    /\ NoGoroutines
    /\ ui = UIAfter(w)

NextTimers ==
  \/ steps < MaxSteps /\ \E i \in Slots : UIClick(i)
  \/ steps < MaxSteps /\ \E r \in Slots : UITimerCPU(r)
  \/ steps < MaxSteps /\ UITimerFinalize
  \/ steps < MaxSteps /\ UITimerCheck
  \/ steps < MaxSteps /\ UIUndo

SpecTimers == InitTimers /\ [][NextTimers]_vars

\* the protocol the timers are set for: a whole game from StartGame in
\* which the user clicks the slots of picks, each only when no timer is
\* pending, and a timer that finalizes a capture fires before any other
WholeGames ==
  {PistiGame, SevenGame, CountGame, ValueGame, JackGame, NoCaptureGame}
  \cup SeededGames

InitSerial ==
  \E g \in WholeGames : \E w \in {GameStart(g)} :
    /\ casino = w.c
    /\ lastOp = w.lastOp
    /\ prevOp = w.prevOp
    /\ pre = w.pre
    /\ started = TRUE
    /\ snapshotInGame = w.snapshotInGame
    /\ steps = 0
    /\ NoGoroutines
    /\ ui = [NoTimers EXCEPT !.hands = 1, !.picks = g.picks, !.lucks = g.lucks]

NoTimerPending ==
  ui.cpuTimers = 0 /\ ui.finalizeTimers = 0 /\ ui.checkTimers = 0

ClickSerial ==
  /\ NoTimerPending
  /\ ~isHandFinished(casino)
  /\ \E i \in {PlayerPick(casino, ui, ui.playerMoves + 1)} : UIClick(i)

TimerCPUSerial ==
  /\ ui.finalizeTimers = 0
  /\ \E r \in {CpuLuck(ui, ui.cpuMoves + 1)} : UITimerCPU(r)

TimerCheckSerial == ui.finalizeTimers = 0 /\ UITimerCheck

NextSerial ==
  \/ ClickSerial
  \/ TimerCPUSerial
  \/ UITimerFinalize
  \/ TimerCheckSerial

SpecSerial == InitSerial /\ [][NextSerial]_vars

\* a step of the protocol is possible: a timer is pending, or none is and
\* the user holds a card they can click
StepPending ==
  \/ ui.finalizeTimers > 0
  \/ ui.cpuTimers > 0
  \/ ui.checkTimers > 0
  \/ /\ ~isHandFinished(casino)
     /\ ~ui.isAnimating
     /\ casino.gameState = StatePlayerTurn

\* the timers fire, and the user goes on clicking while they hold a card:
\* a step that is possible is taken (every step is counted in steps)
SpecSerialFair == SpecSerial /\ WF_steps(StepPending /\ steps' = steps + 1)

----------------------------------------------------------------------------
(* Observations used by the properties. *)

\* the table pile: the cards below the cursor cardsOnTable
TablePile(c) == SliceCopy(c.tableCards, c.cardsOnTable)

\* the current-hand memory: the cards below its length counter
HandMemory(c) == SliceCopy(c.currentHandMemory, c.currentHandMemoryLength)

\* hands, table, scores, collected counts and current-hand memory
PlayState(c) ==
  [playerCards |-> c.playerCards, cpuCards |-> c.cpuCards,
   tablePile |-> TablePile(c), cardsOnTable |-> c.cardsOnTable,
   playerPoint |-> c.playerPoint, cpuPoint |-> c.cpuPoint,
   cardsCollectedByPlayer |-> c.cardsCollectedByPlayer,
   cardsCollectedByCPU |-> c.cardsCollectedByCPU,
   handMemory |-> HandMemory(c)]

\* hands, table, scores, collected counts and game state
TurnState(c) ==
  [playerCards |-> c.playerCards, cpuCards |-> c.cpuCards,
   tablePile |-> TablePile(c),
   playerPoint |-> c.playerPoint, cpuPoint |-> c.cpuPoint,
   cardsCollectedByPlayer |-> c.cardsCollectedByPlayer,
   cardsCollectedByCPU |-> c.cardsCollectedByCPU,
   gameState |-> c.gameState]

\* every field but the undo bookkeeping itself, the arrays by their live part
MutableState(c) ==
  [play |-> PlayState(c), gameState |-> c.gameState, level |-> c.level,
   currentCard |-> c.currentCard, deck |-> c.deck,
   lastScorer |-> c.lastScorer, isInitialPile |-> c.isInitialPile,
   initialHiddenCards |-> c.initialHiddenCards,
   safeDiscardCandidate |-> c.safeDiscardCandidate,
   initialPileCaptureMsg |-> c.initialPileCaptureMsg,
   lastPlayedCPUCardIdx |-> c.lastPlayedCPUCardIdx,
   lastPlayedPlayerCard |-> c.lastPlayedPlayerCard,
   allPlayedCardsMemory |->
       SliceCopy(c.allPlayedCardsMemory, c.allPlayedCardsMemoryLength)]

CardsAccountedFor(c) ==
  (DeckSize - c.currentCard) + HeldCards(c.playerCards) + HeldCards(c.cpuCards)
  + c.cardsOnTable + c.cardsCollectedByPlayer + c.cardsCollectedByCPU

\* the scoring table by card identity: the Jacks and the Aces 1, the Deuce
\* of Clubs 2, the Ten of Diamonds 3
CardValue(card) ==
  CASE card \in {11, 24, 37, 50} -> 1
    [] card \in {1, 14, 27, 40} -> 1
    [] card = 28 -> 2
    [] card = 23 -> 3
    [] OTHER -> 0

IsJack(card) == card \in {11, 24, 37, 50}
SameFace(a, b) == (a - b) % 13 = 0

\* the value of the cards pile[0..n-1]: a card is worth 0, 1, 2 or 3
PileValue(pile, n) ==
  Cardinality({i \in 0..(n - 1) : CardValue(pile[i]) = 1})
  + 2 * Cardinality({i \in 0..(n - 1) : CardValue(pile[i]) = 2})
  + 3 * Cardinality({i \in 0..(n - 1) : CardValue(pile[i]) = 3})

PointsOf(c, side) == IF side = Player THEN c.playerPoint ELSE c.cpuPoint
CollectedOf(c, side) ==
  IF side = Player THEN c.cardsCollectedByPlayer ELSE c.cardsCollectedByCPU
Opponent(side) == IF side = Player THEN CPU ELSE Player

\* the step is a play: playerPlays on an occupied slot, or cpuPlays with a
\* card in hand
PlayStep ==
  \/ lastOp'.op = "playerPlays" /\ casino.playerCards[lastOp'.arg] # Nil
  \/ lastOp'.op = "cpuPlays" /\ HeldCards(casino.cpuCards) > 0

\* the side that plays in a PlayStep, its hand before and after, and the
\* card played: the one that left the hand
Mover == IF lastOp'.op = "playerPlays" THEN Player ELSE CPU
HandOf(c, side) == IF side = Player THEN c.playerCards ELSE c.cpuCards
PlayedCard ==
  LET before == HandOf(casino, Mover)
      after == HandOf(casino', Mover)
  IN  before[CHOOSE i \in Slots : before[i] # after[i]]

----------------------------------------------------------------------------
(* Properties.  Those that the engine does not meet are stated for a game  *)
(* that StartGame has started, so that what refutes them is a run of a     *)
(* regular game.                                                           *)

\* C1: card conservation: in every reachable state the cards left in the
\* deck, in both hands, on the table and collected by either side add up
\* to 52 (stated outside the PileCaptured pause, during which the captured
\* pile is still displayed on the table).
C1_CardConservation ==
  (started /\ casino.gameState # StatePileCaptured)
    => CardsAccountedFor(casino) = DeckSize

\* C2 (as claimed): a playerPlays on an occupied slot followed immediately
\* by undo leaves hands, table pile, scores, collected counts and
\* current-hand memory as they were before the play, from every state.
C2_UndoRoundTripAlways ==
  (started /\ prevOp = "play" /\ lastOp.op = "undo")
    => PlayState(casino) = PlayState(pre.c)

\* C2 (amended): a playerPlays on an occupied slot at a level below
\* Advanced, followed immediately by an undo that returns success, leaves
\* hands, table pile, scores, collected counts and current-hand memory as
\* they were before the play.
C2_UndoRoundTrip ==
  (prevOp = "play" /\ lastOp.op = "undo" /\ lastOp.ret /\ pre.snap)
    => PlayState(casino) = PlayState(pre.c)

\* a play that captured the pile was undone
C2_Witness ==
  /\ started
  /\ prevOp = "play" /\ lastOp.op = "undo" /\ lastOp.ret /\ pre.snap
  /\ playerPlays(pre.c, pre.arg).gameState = StatePileCaptured

\* C3: an undo right after a successful undo fails and changes nothing; a
\* successful undo needs the can-undo flag and clears it, and only a
\* computer play sets the flag again, so a computer play lies between any
\* two successful undos.
C3_NoSecondUndo ==
  [][ /\ (lastOp.op = "undo" /\ lastOp.ret /\ lastOp'.op = "undo")
           => (~lastOp'.ret /\ casino' = casino)
      /\ (lastOp'.op = "undo" /\ lastOp'.ret)
           => (casino.canUndo /\ ~casino'.canUndo)
      /\ (~casino.canUndo /\ casino'.canUndo)
           => lastOp'.op = "cpuPlays" ]_vars

\* in a started game a second undo was refused right after a successful one
C3_Witness ==
  started /\ prevOp = "undoOk" /\ lastOp.op = "undo" /\ ~lastOp.ret

\* C4: at the Advanced level undo returns failure and changes nothing.
C4_NoUndoAtAdvanced ==
  [][ (started /\ casino.level = LevelAdvanced /\ lastOp'.op = "undo")
        => (~lastOp'.ret /\ casino' = casino) ]_vars

\* C5: undo succeeds only if a playerPlays of the current game took a
\* snapshot and undo is permitted; a failing undo changes nothing.
C5_UndoNeedsSnapshot ==
  [][ (started /\ lastOp'.op = "undo")
        => /\ lastOp'.ret => (snapshotInGame /\ casino.canUndo)
           /\ ~lastOp'.ret => casino' = casino ]_vars

\* C6: after a successful undo the engine is as it was when the snapshot
\* was taken: hands, table, scores, collected counts and memory, and in
\* particular the deck cursor and the game state.
C6_UndoRestoresAll ==
  (started /\ snapshotInGame /\ lastOp.op = "undo" /\ lastOp.ret /\ pre.snap)
    => /\ PlayState(casino) = PlayState(pre.c)
       /\ casino.currentCard = pre.c.currentCard
       /\ casino.gameState = pre.c.gameState

\* C7: playerPlays on an empty slot changes nothing, the retained snapshot
\* included: the engine is as before, and so is what an undo then does.
C7_EmptySlotNoOp ==
  [][ (started /\ lastOp'.op = "playerPlays"
       /\ casino.playerCards[lastOp'.arg] = Nil)
        => /\ MutableState(casino') = MutableState(casino)
           /\ casino'.canUndo = casino.canUndo
           /\ MutableState(undoImplementation(casino').c)
                = MutableState(undoImplementation(casino).c) ]_vars

\* C8: playerPlays outside PlayerTurn and cpuPlays outside CPUTurn leave
\* hands, table pile, scores, collected counts and game state unchanged.
C8_OutOfTurnNoOp ==
  [][ (/\ started
       /\ \/ lastOp'.op = "playerPlays" /\ casino.gameState # StatePlayerTurn
          \/ lastOp'.op = "cpuPlays" /\ casino.gameState # StateCPUTurn)
        => TurnState(casino') = TurnState(casino) ]_vars

\* C9: finalizeCapture outside PileCaptured changes nothing.
C9_FinalizeOnlyWhenCaptured ==
  [][ (started /\ lastOp'.op = "finalizeCapture"
       /\ casino.gameState # StatePileCaptured)
        => casino' = casino ]_vars

\* C10: a StartGame that returns failure has changed nothing.
C10_FailedStartNoOp ==
  [][ (started /\ lastOp'.op = "StartGame" /\ ~lastOp'.ret)
        => casino' = casino ]_vars

\* the state that StartGame leaves: PlayerTurn, scores, collected counts and
\* memory lengths 0, deck positions 0..3 on the table (the first 3 recorded
\* as hidden), 4..7 in the player's hand, 8..11 in the CPU's, cursor 12,
\* initial-pile flag set, the deck a permutation of the 52 cards
FreshGame(c) ==
  /\ c.gameState = StatePlayerTurn
  /\ c.playerPoint = 0 /\ c.cpuPoint = 0
  /\ c.cardsCollectedByPlayer = 0 /\ c.cardsCollectedByCPU = 0
  /\ c.currentHandMemoryLength = 0 /\ c.allPlayedCardsMemoryLength = 0
  /\ c.cardsOnTable = 4
  /\ \A i \in 0..3 : c.tableCards[i] = c.deck[i]
  /\ c.initialHiddenCards = <<c.deck[0], c.deck[1], c.deck[2]>>
  /\ \A i \in Slots : /\ c.playerCards[i] = c.deck[4 + i]
                      /\ c.cpuCards[i] = c.deck[8 + i]
  /\ c.currentCard = 12
  /\ c.isInitialPile
  /\ {c.deck[i] : i \in DeckIdx} = 1..DeckSize

\* C11: StartGame called with a level chosen re-initializes the game from
\* any state: also during a game it returns success and leaves PlayerTurn
\* with a freshly shuffled and dealt game.
C11_StartReinitializes ==
  [][ (started /\ lastOp'.op = "StartGame"
       /\ casino.level # LevelNotSelected)
        => (lastOp'.ret /\ FreshGame(casino')) ]_vars

\* C12: from NotStarted with a level chosen, StartGame returns success and
\* yields PlayerTurn, scores, collected counts and memory lengths 0, a table
\* pile of the deck positions 0..3 with the first 3 recorded as hidden, the
\* hands from positions 4..7 and 8..11, cursor 12 and the initial-pile flag.
C12_StartFromNotStarted ==
  [][ (lastOp'.op = "StartGame" /\ casino.gameState = StateNotStarted
       /\ casino.level # LevelNotSelected)
        => (lastOp'.ret /\ FreshGame(casino')) ]_vars

\* a second game was started: the deck that was shuffled and dealt is not
\* one shuffle away from the new deck
C12_Witness ==
  /\ lastOp.op = "StartGame" /\ lastOp.ret
  /\ casino.gameState = StatePlayerTurn
  /\ \A seed \in 1..NumSeeds :
        casino.deck # shuffleFrom(NewCasino.deck, RandSeq(seed), 0)

\* C13: a capture on a pile of exactly 2 cards: matching non-Jack faces
\* give the capturer exactly 10 points, two Jacks exactly 20, a Jack on a
\* single other card the points of the two cards by the scoring table (not
\* 10 or 20); in all three cases 2 cards are credited as collected.
C13_TwoCardCapture ==
  [][ (PlayStep /\ casino.cardsOnTable = 1)
        => LET top == PlayedCard
               under == casino.tableCards[0]
               gain == PointsOf(casino', Mover) - PointsOf(casino, Mover)
               got == CollectedOf(casino', Mover) - CollectedOf(casino, Mover)
           IN  /\ (SameFace(top, under) /\ ~IsJack(top))
                     => (gain = 10 /\ got = 2)
               /\ (IsJack(top) /\ IsJack(under))
                     => (gain = 20 /\ got = 2)
               /\ (IsJack(top) /\ ~IsJack(under))
                     => /\ gain = CardValue(top) + CardValue(under)
                        /\ gain \notin {10, 20}
                        /\ got = 2 ]_vars

\* the CPU has just taken an Eight with a Jack, after a Pisti of Jacks (20),
\* a Pisti of Sevens (10) and a capture of six cards without value
C13_Witness ==
  /\ lastOp.op = "cpuPlays"
  /\ casino.gameState = StatePileCaptured
  /\ casino.cardsOnTable = 2
  /\ GetFace(casino.tableCards[0]) = "Eight"
  /\ GetFace(casino.tableCards[1]) = "Jack"
  /\ casino.cpuPoint = 31
  /\ casino.cardsCollectedByCPU = 12
  /\ steps > MaxSteps - FreeOps

\* C14: on a normal capture (a pile of more than 2 cards) the capturer's
\* score grows by the values of all cards of the pile (Jack 1, Ace 1, Deuce
\* of Clubs 2, Ten of Diamonds 3, any other card 0) and its collected count
\* by the size of the pile; the pile of one Ace, one Jack, the Deuce of
\* Clubs and the Ten of Diamonds scores 7.
C14_NormalCapture ==
  [][ (/\ PlayStep
       /\ casino.cardsOnTable >= 2
       /\ \/ IsJack(PlayedCard)
          \/ SameFace(PlayedCard, casino.tableCards[casino.cardsOnTable - 1]))
        => LET n == casino.cardsOnTable
               gain == PointsOf(casino', Mover) - PointsOf(casino, Mover)
               got == CollectedOf(casino', Mover) - CollectedOf(casino, Mover)
               pile == {casino.tableCards[i] : i \in 0..(n - 1)}
                         \cup {PlayedCard}
           IN  /\ gain = PileValue(casino.tableCards, n) + CardValue(PlayedCard)
               /\ got = n + 1
               /\ (n = 3 /\ {28, 23} \subseteq pile
                   /\ \E a \in {1, 14, 27, 40} : a \in pile
                   /\ \E j \in {11, 24, 37, 50} : j \in pile)
                     => gain = 7 ]_vars

\* the player has just taken the Ace of Hearts, the Deuce of Clubs and the
\* Ten of Diamonds with the Jack of Hearts, after the initial pile
C14_Witness ==
  /\ lastOp.op = "playerPlays"
  /\ casino.gameState = StatePileCaptured
  /\ casino.cardsOnTable = 4
  /\ TablePile(casino) = (0 :> 1 @@ 1 :> 28 @@ 2 :> 23 @@ 3 :> 11)
  /\ casino.playerPoint = 7
  /\ casino.cardsCollectedByPlayer = 9
  /\ steps > MaxSteps - FreeOps

\* C15: on entry to GameOver, after the final pile is awarded, exactly 3
\* points are added to the side whose collected count is strictly greater,
\* and none to either side when the counts are equal.
C15_MajorityBonus ==
  [][ (casino.gameState # StateGameOver /\ casino'.gameState = StateGameOver)
        => LET receiver == IF casino.lastScorer = Player THEN Player ELSE CPU
               finalPile(side) ==
                 IF side = receiver
                 THEN PileValue(casino.tableCards, casino.cardsOnTable)
                 ELSE 0
               bonus(side) ==
                 IF CollectedOf(casino', side)
                      > CollectedOf(casino', Opponent(side))
                 THEN 3 ELSE 0
           IN  \A side \in {Player, CPU} :
                 PointsOf(casino', side)
                   = PointsOf(casino, side) + finalPile(side) + bonus(side) ]_vars

\* a game has just ended with 26 cards collected on each side
C15_Witness ==
  /\ lastOp.op = "checkEndOfHand"
  /\ casino.gameState = StateGameOver
  /\ casino.cardsCollectedByPlayer = 26
  /\ casino.cardsCollectedByCPU = 26
  /\ casino.playerPoint = 7 /\ casino.cpuPoint = 6
  /\ steps > MaxSteps - FreeOps

\* C16: from PileCaptured, finalizeCapture with both hands empty and the
\* deck cursor at 52 yields GameOver; with both hands non-empty it yields
\* PlayerTurn.
C16_FinalizeEndsGame ==
  [][ (started /\ lastOp'.op = "finalizeCapture"
       /\ casino.gameState = StatePileCaptured)
        => /\ (/\ HeldCards(casino.playerCards) = 0
               /\ HeldCards(casino.cpuCards) = 0
               /\ casino.currentCard = DeckSize)
                 => casino'.gameState = StateGameOver
           /\ (/\ HeldCards(casino.playerCards) > 0
               /\ HeldCards(casino.cpuCards) > 0)
                 => casino'.gameState = StatePlayerTurn ]_vars

C18_ScorerPlaysNext ==
  [][ (started /\ lastOp'.op = "finalizeCapture"
       /\ casino.gameState = StatePileCaptured
       /\ casino'.gameState # StateGameOver)
        => casino'.gameState = IF casino.lastScorer = Player
                               THEN StatePlayerTurn
                               ELSE StateCPUTurn ]_vars

\* C19: when a side plays a held card, the card leaves the hand and becomes
\* the top of the table pile; the state becomes PileCaptured, with the
\* mover as last scorer, if and only if the pile then has at least 2 cards
\* and the new top card has the face of the card beneath it or is a Jack;
\* otherwise the turn passes to the opponent.  A card played on an empty
\* table, even a Jack, never captures.
C19_PlayNextState ==
  [][ PlayStep
        => LET n == casino.cardsOnTable
               top == PlayedCard
               before == HandOf(casino, Mover)
               after == HandOf(casino', Mover)
               captures ==
                 /\ n + 1 >= 2
                 /\ SameFace(top, casino.tableCards[n - 1]) \/ IsJack(top)
           IN  /\ \E i \in Slots :
                    /\ before[i] = top
                    /\ after = [before EXCEPT ![i] = Nil]
               /\ HandOf(casino', Opponent(Mover)) = HandOf(casino, Opponent(Mover))
               /\ casino'.cardsOnTable = n + 1
               /\ casino'.tableCards[n] = top
               /\ \A i \in 0..(n - 1) : casino'.tableCards[i] = casino.tableCards[i]
               /\ IF captures
                  THEN /\ casino'.gameState = StatePileCaptured
                       /\ casino'.lastScorer = Mover
                  ELSE /\ casino'.gameState = IF Mover = Player
                                              THEN StateCPUTurn
                                              ELSE StatePlayerTurn
                       /\ casino'.lastScorer = casino.lastScorer
               /\ n = 0 => casino'.gameState # StatePileCaptured ]_vars

\* the player has just led a Jack on the empty table of a game in progress
\* and the turn is the CPU's
C19_Witness ==
  /\ lastOp.op = "playerPlays"
  /\ steps > MaxSteps - FreeOps
  /\ casino.cardsOnTable = 1
  /\ IsJack(casino.tableCards[0])
  /\ casino.gameState = StateCPUTurn
  /\ casino.cardsCollectedByCPU > 0

\* C20: GameOver is left only through a reset: in GameOver no playerPlays,
\* cpuPlays, finalizeCapture, checkEndOfHand, undo or SetLevel changes the
\* game state, and ResetGame moves it to NotStarted.
C20_GameOverSticks ==
  [][ (started /\ casino.gameState = StateGameOver)
        => /\ lastOp'.op \in {"playerPlays", "cpuPlays", "finalizeCapture",
                               "checkEndOfHand", "undo", "SetLevel"}
                 => casino'.gameState = StateGameOver
           /\ lastOp'.op = "ResetGame"
                 => casino'.gameState = StateNotStarted ]_vars

\* C21: on entry to GameOver the cards on the table pile go to the side
\* that scored last, and to the CPU when nobody has scored: that side's
\* collected count grows by the size of the pile and its score by the value
\* of the pile (before the majority bonus), the other side gets nothing of
\* it, and afterwards the table pile is empty.
C21_FinalPileAwarded ==
  [][ (casino.gameState # StateGameOver /\ casino'.gameState = StateGameOver)
        => LET receiver == IF casino.lastScorer = Player THEN Player ELSE CPU
               other == Opponent(receiver)
               bonus(side) ==
                 IF CollectedOf(casino', side)
                      > CollectedOf(casino', Opponent(side))
                 THEN 3 ELSE 0
           IN  /\ CollectedOf(casino', receiver)
                     = CollectedOf(casino, receiver) + casino.cardsOnTable
               /\ CollectedOf(casino', other) = CollectedOf(casino, other)
               /\ PointsOf(casino', receiver) - bonus(receiver)
                     = PointsOf(casino, receiver)
                       + PileValue(casino.tableCards, casino.cardsOnTable)
               /\ PointsOf(casino', other) - bonus(other)
                     = PointsOf(casino, other)
               /\ casino'.cardsOnTable = 0 ]_vars

\* a game in which nobody scored has just ended: the 52 cards of the table
\* went to the CPU, with their 13 points and the bonus
C21_Witness ==
  /\ lastOp.op = "checkEndOfHand"
  /\ casino.gameState = StateGameOver
  /\ casino.lastScorer = NoPlayer
  /\ casino.cardsOnTable = 0
  /\ casino.cardsCollectedByCPU = DeckSize
  /\ casino.cardsCollectedByPlayer = 0
  /\ casino.cpuPoint = 16 /\ casino.playerPoint = 0
  /\ steps > MaxSteps - FreeOps

C23_CursorOnSchedule ==
  /\ casino.currentCard \in {0, 12, 20, 28, 36, 44, 52}
  /\ casino.currentCard < DeckSize
        => casino.currentCard + 2 * HandSize <= DeckSize

\* C25: the hands move in lockstep: whenever the state is PlayerTurn or
\* GameOver both hands hold the same number of cards, and in no state do
\* the two numbers differ by more than one.
C25_HandsInLockstep ==
  started
    => LET p == HeldCards(casino.playerCards)
           c == HeldCards(casino.cpuCards)
       IN  /\ casino.gameState \in {StatePlayerTurn, StateGameOver} => p = c
           /\ p - c \in {-1, 0, 1}

----------------------------------------------------------------------------
(* The computer's strategy. *)

\* what the selection may look at: the level, the CPU's hand, the pile on
\* the table, the safe-discard hint and the two memories
AIView(c) ==
  [level |-> c.level,
   cpuCards |-> c.cpuCards,
   pile |-> SliceCopy(c.tableCards, c.cardsOnTable),
   safeDiscardCandidate |-> c.safeDiscardCandidate,
   currentHandMemory |-> SliceCopy(c.currentHandMemory, c.currentHandMemoryLength),
   allPlayedCardsMemory |-> SliceCopy(c.allPlayedCardsMemory, c.allPlayedCardsMemoryLength)]

\* a freshly built engine given nothing but a view
FromView(v) ==
  [NewCasino EXCEPT
     !.level = v.level,
     !.cpuCards = v.cpuCards,
     !.tableCards = [i \in DeckIdx |-> IF i \in DOMAIN v.pile THEN v.pile[i] ELSE Nil],
     !.cardsOnTable = Cardinality(DOMAIN v.pile),
     !.safeDiscardCandidate = v.safeDiscardCandidate,
     !.currentHandMemory = [i \in DeckIdx |-> IF i \in DOMAIN v.currentHandMemory
                                            THEN v.currentHandMemory[i] ELSE Nil],
     !.currentHandMemoryLength = Cardinality(DOMAIN v.currentHandMemory),
     !.allPlayedCardsMemory = [i \in DeckIdx |-> IF i \in DOMAIN v.allPlayedCardsMemory
                                               THEN v.allPlayedCardsMemory[i] ELSE Nil],
     !.allPlayedCardsMemoryLength = Cardinality(DOMAIN v.allPlayedCardsMemory)]

\* C26: the selection is a function of the level, the CPU's hand, the table
\* pile, the hint, the memories and the random draw: an engine that shares
\* only these with the running one selects the same slot on every draw.
C26_SelectionDeterministic ==
  \A r \in Slots :
    \E v \in {AIView(casino)} :
      CPUaction(casino, r) = CPUaction(FromView(v), r)

\* the engine the computer's selection ran on, when the computer has just
\* answered a play of the player
BeforeCPU == playerPlays(pre.c, pre.arg)

AnsweredPlay ==
  /\ lastOp.op = "cpuPlays"
  /\ prevOp = "play"
  /\ pre.c.gameState = StatePlayerTurn
  /\ pre.c.playerCards[pre.arg] # Nil
  /\ steps > MaxSteps - FreeOps + 1

\* the computer at Intermediate, with cards remembered, has just played a
\* slot that the draw decided, the slot an engine built from the view alone
\* selects on one of the draws
C26_Witness ==
  /\ AnsweredPlay
  /\ \E b \in {BeforeCPU} :
       /\ b.level = LevelIntermediate
       /\ b.gameState = StateCPUTurn
       /\ b.currentHandMemoryLength > 0
       /\ CPUaction(b, 0) # CPUaction(b, 1)
       /\ b # FromView(AIView(b))
       /\ casino.lastPlayedCPUCardIdx
            \in {CPUaction(FromView(AIView(b)), r) : r \in Slots}

\* a call of cpuPlays with a card in the CPU's hand
CPUMoves == lastOp'.op = "cpuPlays" /\ HeldCards(casino.cpuCards) > 0

\* memory mem[0..len-1] with card appended when there is room
Remembered(mem, len, card) ==
  IF len < DeckSize THEN [mem EXCEPT ![len] = card] ELSE mem

SlotsOfFace(c, card) ==
  {i \in Slots : c.cpuCards[i] # Nil /\ SameFace(c.cpuCards[i], card)}

\* the slots of the CPU's hand holding a Jack
JackSlots(c) == {i \in Slots : c.cpuCards[i] # Nil /\ IsJack(c.cpuCards[i])}

\* the capture the capture-check finds: the lowest slot with a card of the
\* top card's face, else the lowest slot with a Jack, else -1
CaptureSlot(c) ==
  IF c.cardsOnTable = 0 THEN -1
  ELSE IF SlotsOfFace(c, c.tableCards[c.cardsOnTable - 1]) # {}
  THEN MinOf(SlotsOfFace(c, c.tableCards[c.cardsOnTable - 1]))
  ELSE IF JackSlots(c) # {} THEN MinOf(JackSlots(c))
  ELSE -1

\* C28: at Beginner, Intermediate and Advanced the computer first looks for
\* a capture: with cards on the table it plays the lowest slot holding a
\* card of the top card's face, and when it holds none, the lowest slot
\* holding a Jack; with a Jack on top and a Jack in hand it plays that Jack.
C28_CaptureFirst ==
  [][(/\ CPUMoves
      /\ casino.level \in {LevelBeginner, LevelIntermediate, LevelAdvanced}
      /\ CaptureSlot(casino) # -1)
       => /\ casino'.lastPlayedCPUCardIdx = CaptureSlot(casino)
          /\ casino'.cpuCards = [casino.cpuCards EXCEPT ![CaptureSlot(casino)] = Nil]
          /\ casino'.gameState = StatePileCaptured
          /\ casino'.lastScorer = CPU]_vars

\* the computer has answered the player's Jack with its own Jack, the
\* lower-indexed of the two it held, with another card in hand as well
C28_Witness ==
  /\ AnsweredPlay
  /\ casino.gameState = StatePileCaptured
  /\ casino.cardsOnTable = 2
  /\ IsJack(casino.tableCards[0])
  /\ IsJack(casino.tableCards[1])
  /\ \E b \in {BeforeCPU} :
       /\ Cardinality(JackSlots(b)) = 2
       /\ casino.lastPlayedCPUCardIdx = MinOf(JackSlots(b))
       /\ casino.lastPlayedCPUCardIdx > 0
       /\ \E i \in Slots : b.cpuCards[i] # Nil /\ ~IsJack(b.cpuCards[i])
       /\ casino.cpuPoint = b.cpuPoint + 20

\* what the logic of the level returns: a slot, or -1 for no move
TierMove(c) ==
  CASE c.level = LevelBeginner -> cpuActionBeginner(c)
    [] c.level = LevelIntermediate -> cpuActionIntermediate(c)
    [] c.level = LevelAdvanced -> cpuActionAdvanced(c)
    [] OTHER -> -1

OccupiedSlots(c) == {i \in Slots : c.cpuCards[i] # Nil}

NonJackSlots(c) == OccupiedSlots(c) \ JackSlots(c)

\* C29: when the logic of the level yields no move the computer plays a slot
\* holding a non-Jack if it has one, and each such slot is the choice on some
\* draw; with Jacks only it plays the lowest occupied slot.  Whenever the
\* computer holds a card the slot chosen, on every draw, is an occupied slot
\* in 0..3, never -1.
C29_FallbackTotal ==
  [][CPUMoves =>
       /\ \A r \in Slots : CPUaction(casino, r) \in OccupiedSlots(casino)
       /\ casino'.lastPlayedCPUCardIdx \in OccupiedSlots(casino)
       /\ casino'.cpuCards
            = [casino.cpuCards EXCEPT ![casino'.lastPlayedCPUCardIdx] = Nil]
       /\ TierMove(casino) = -1
            => IF NonJackSlots(casino) # {}
               THEN /\ casino'.lastPlayedCPUCardIdx \in NonJackSlots(casino)
                    /\ {CPUaction(casino, r) : r \in Slots} = NonJackSlots(casino)
               ELSE casino'.lastPlayedCPUCardIdx = MinOf(OccupiedSlots(casino))]_vars

\* the computer at Beginner, unable to capture and holding three or more
\* cards, has answered a play with a card that is not in its lowest
\* occupied slot
C29_Witness ==
  /\ AnsweredPlay
  /\ casino.gameState = StatePlayerTurn
  /\ \E b \in {BeforeCPU} :
       /\ b.level = LevelBeginner
       /\ b.cardsOnTable > 0
       /\ TierMove(b) = -1
       /\ Cardinality(NonJackSlots(b)) >= 3
       /\ casino.lastPlayedCPUCardIdx \in NonJackSlots(b)
       /\ casino.lastPlayedCPUCardIdx # MinOf(OccupiedSlots(b))

\* the non-Jack cards of the face of card among the CPU's hand and the
\* current-hand memory; no Jack is counted
FaceCount(c, card) ==
  IF IsJack(card) THEN 0
  ELSE Cardinality(SlotsOfFace(c, card))
       + Cardinality({k \in 0..(c.currentHandMemoryLength - 1) :
                        c.currentHandMemory[k] # Nil
                        /\ SameFace(c.currentHandMemory[k], card)})

\* the slots whose card's face has the highest count, when that is above 1
MostCommonSlots(c) ==
  {i \in OccupiedSlots(c) :
     /\ FaceCount(c, c.cpuCards[i]) > 1
     /\ \A j \in OccupiedSlots(c) :
          FaceCount(c, c.cpuCards[j]) <= FaceCount(c, c.cpuCards[i])}

\* neither the capture-check nor the hint gives a move
NoCaptureNoHint(c) ==
  /\ CaptureSlot(c) = -1
  /\ \/ c.safeDiscardCandidate = Nil
     \/ SlotsOfFace(c, c.safeDiscardCandidate) = {}

\* C30: at Intermediate, when the capture-check and the hint give no move,
\* the computer plays the lowest slot among those whose face has the highest
\* count over the non-Jacks of its hand and of the current-hand memory,
\* provided that count is above 1; otherwise it plays by the fallback rule.
C30_IntermediateMostCommon ==
  [][(/\ CPUMoves
      /\ casino.level = LevelIntermediate
      /\ NoCaptureNoHint(casino))
       => IF MostCommonSlots(casino) # {}
          THEN casino'.lastPlayedCPUCardIdx = MinOf(MostCommonSlots(casino))
          ELSE IF NonJackSlots(casino) # {}
          THEN casino'.lastPlayedCPUCardIdx \in NonJackSlots(casino)
          ELSE casino'.lastPlayedCPUCardIdx = MinOf(OccupiedSlots(casino))]_vars

\* the computer at Intermediate, with no capture and no hint to follow, has
\* answered a play with a card whose face it had seen played in this hand,
\* passing over a lower slot whose face it had not seen
C30_Witness ==
  /\ AnsweredPlay
  /\ \E b \in {BeforeCPU} :
       /\ b.level = LevelIntermediate
       /\ NoCaptureNoHint(b)
       /\ MostCommonSlots(b) # {}
       /\ casino.lastPlayedCPUCardIdx = MinOf(MostCommonSlots(b))
       /\ casino.lastPlayedCPUCardIdx > MinOf(NonJackSlots(b))
       /\ Cardinality(SlotsOfFace(b, b.cpuCards[casino.lastPlayedCPUCardIdx])) = 1

----------------------------------------------------------------------------
(* Concurrent calls of the operations. *)

\* the positions of a goroutine between Lock and the deferred Unlock
InBody == {"read", "write", "return"}

\* C24: each of the eight operations runs under the engine's one mutex.  At
\* most one goroutine is inside an operation body, and it is the holder of
\* the mutex; what a body writes is computed from the engine as it is at
\* the time of the write, so the effects of two calls never interleave; a
\* goroutine outside a body does not hold the mutex, by whichever return
\* statement it left; no goroutine waits at Lock for a mutex it holds; and
\* while a goroutine waits at Lock, the mutex is free or its holder is in a
\* body and can go on to unlock it, so the calls never deadlock.
C24_OperationsAtomic ==
  /\ \A t, u \in Goroutines :
       pc[t].at \in InBody /\ pc[u].at \in InBody => t = u
  /\ \A t \in Goroutines : pc[t].at \in InBody <=> mu = t
  /\ \A t \in Goroutines : pc[t].at = "write" => pc[t].seen = casino
  /\ \A t \in Goroutines : pc[t].at = "lock" => mu # t
  /\ (\E t \in Goroutines : pc[t].at = "lock")
       => \/ mu = Unlocked
          \/ \E u \in Goroutines : mu = u /\ pc[u].at \in InBody

\* one goroutine waits at Lock while another, which holds the mutex, is
\* leaving playerPlays through its early return
C24_Witness ==
  \E t, u \in Goroutines :
    /\ t # u
    /\ pc[t].at = "lock"
    /\ pc[u].at = "return"
    /\ pc[u].op = "playerPlays"
    /\ pc[u].early
    /\ mu = u

\* occurrences of the face of the card in slot i in the full-game memory
\* and in the other slots of the CPU's hand
MatchNumberOf(c, i) ==
  Cardinality({k \in 0..(c.allPlayedCardsMemoryLength - 1) :
                 c.allPlayedCardsMemory[k] # Nil
                 /\ SameFace(c.allPlayedCardsMemory[k], c.cpuCards[i])})
  + Cardinality(SlotsOfFace(c, c.cpuCards[i]) \ {i})

\* the non-Jack slots with the highest match number, when that is positive
BestMatchSlots(c) ==
  {i \in NonJackSlots(c) :
     /\ MatchNumberOf(c, i) > 0
     /\ \A j \in NonJackSlots(c) : MatchNumberOf(c, j) <= MatchNumberOf(c, i)}

\* the non-Jack slots whose card has the lowest point value
LeastValueSlots(c) ==
  {i \in NonJackSlots(c) :
     \A j \in NonJackSlots(c) : CardValue(c.cpuCards[i]) <= CardValue(c.cpuCards[j])}

\* C31: at Advanced, when the capture-check and the hint give no move and
\* the computer holds a non-Jack, it plays the lowest slot among the
\* non-Jacks with the highest match number if that number is positive, and
\* otherwise the lowest slot among the non-Jacks of the lowest point value.
C31_AdvancedMatchNumber ==
  [][(/\ CPUMoves
      /\ casino.level = LevelAdvanced
      /\ NoCaptureNoHint(casino)
      /\ NonJackSlots(casino) # {})
       => IF BestMatchSlots(casino) # {}
          THEN casino'.lastPlayedCPUCardIdx = MinOf(BestMatchSlots(casino))
          ELSE casino'.lastPlayedCPUCardIdx = MinOf(LeastValueSlots(casino))]_vars

\* the computer at Advanced, with no capture and no hint to follow, has
\* answered a play with the card of the highest match number, with cards
\* in the full-game memory, passing over a lower non-Jack slot
C31_Witness ==
  /\ AnsweredPlay
  /\ \E b \in {BeforeCPU} :
       /\ b.level = LevelAdvanced
       /\ NoCaptureNoHint(b)
       /\ BestMatchSlots(b) # {}
       /\ casino.lastPlayedCPUCardIdx = MinOf(BestMatchSlots(b))
       /\ casino.lastPlayedCPUCardIdx > MinOf(NonJackSlots(b))
       /\ b.allPlayedCardsMemoryLength > 0

----------------------------------------------------------------------------
(* The safe-discard hint and the hidden-cards message. *)

\* the player plays a Jack onto a pile and so captures it
PlayerJackCapture ==
  /\ lastOp'.op = "playerPlays"
  /\ casino.playerCards[lastOp'.arg] # Nil
  /\ IsJack(casino.playerCards[lastOp'.arg])
  /\ casino.cardsOnTable > 0

\* a deal of a new hand by checkEndOfHand
NewHandDeal ==
  /\ lastOp'.op = "checkEndOfHand"
  /\ casino'.currentCard > casino.currentCard

UndoRestores == lastOp'.op = "undo" /\ lastOp'.ret

\* C32: the safe-discard hint.  A capture of the player with a Jack sets it
\* to the card that lay beneath the Jack; StartGame, ResetGame and the deal
\* of a new hand clear it; an undo sets it to the snapshot's value; cpuPlays
\* never changes it, and it changes in no other way.
C32_HintLifecycle ==
  [][/\ PlayerJackCapture
          => casino'.safeDiscardCandidate = casino.tableCards[casino.cardsOnTable - 1]
     /\ lastOp'.op \in {"StartGame", "ResetGame"} \/ NewHandDeal
          => casino'.safeDiscardCandidate = Nil
     /\ UndoRestores
          => casino'.safeDiscardCandidate = casino.undoState.safeDiscardCandidate
     /\ lastOp'.op = "cpuPlays"
          => casino'.safeDiscardCandidate = casino.safeDiscardCandidate
     /\ casino'.safeDiscardCandidate # casino.safeDiscardCandidate
          => \/ PlayerJackCapture
             \/ lastOp'.op \in {"StartGame", "ResetGame"}
             \/ NewHandDeal
             \/ UndoRestores]_vars

\* the player has captured a pile of three or more with a Jack: the hint is
\* the card beneath the Jack, and it was not the hint before
C32_Witness ==
  /\ lastOp.op = "playerPlays"
  /\ steps > MaxSteps - FreeOps
  /\ casino.gameState = StatePileCaptured
  /\ casino.cardsOnTable > 2
  /\ IsJack(casino.tableCards[casino.cardsOnTable - 1])
  /\ casino.safeDiscardCandidate = casino.tableCards[casino.cardsOnTable - 2]
  /\ pre.c.safeDiscardCandidate # casino.safeDiscardCandidate
  /\ ~IsJack(casino.safeDiscardCandidate)

\* a play that captures
CaptureStep == PlayStep /\ casino'.gameState = StatePileCaptured

\* C33: the message naming the hidden cards is written only by a capture of
\* the player made while the hidden-cards tracker is set, and names the
\* tracked cards; every capture, of either side, leaves the tracker cleared;
\* the tracker is set again only by StartGame or by an undo; cpuPlays never
\* writes the message.  So once the computer has made the first capture of
\* a game, no later capture writes the message unless an undo intervenes.
C33_HiddenCardsMessage ==
  [][/\ (/\ casino'.initialPileCaptureMsg # casino.initialPileCaptureMsg
         /\ casino'.initialPileCaptureMsg # <<>>)
          => /\ lastOp'.op = "playerPlays"
             /\ CaptureStep
             /\ casino.initialHiddenCards # <<>>
             /\ casino'.initialPileCaptureMsg
                  = [k \in 1..3 |-> GetFace(casino.initialHiddenCards[k])]
     /\ CaptureStep => casino'.initialHiddenCards = <<>>
     /\ (/\ casino'.initialHiddenCards # casino.initialHiddenCards
         /\ casino'.initialHiddenCards # <<>>)
          => \/ lastOp'.op = "StartGame" /\ lastOp'.ret
             \/ UndoRestores
     /\ lastOp'.op = "cpuPlays"
          => casino'.initialPileCaptureMsg = casino.initialPileCaptureMsg]_vars

\* in a game whose first capture the computer made, the player has just
\* captured: the tracker is cleared and there is no message
C33_Witness ==
  /\ lastOp.op = "playerPlays"
  /\ steps > MaxSteps - FreeOps
  /\ casino.gameState = StatePileCaptured
  /\ casino.lastScorer = Player
  /\ pre.c.lastScorer = CPU
  /\ pre.c.cardsCollectedByPlayer = 0
  /\ pre.c.cardsCollectedByCPU > 0
  /\ pre.c.initialHiddenCards = <<>>
  /\ casino.cardsCollectedByPlayer > 0
  /\ casino.initialHiddenCards = <<>>
  /\ casino.initialPileCaptureMsg = <<>>

\* C34: the computer never wastes a Jack on an empty table: when the table
\* pile is empty and the computer holds a card that is not a Jack, the card
\* it plays is not a Jack.
C34_NoJackOnEmptyTable ==
  [][(/\ CPUMoves
      /\ started
      /\ casino.cardsOnTable = 0
      /\ NonJackSlots(casino) # {})
       => casino'.lastPlayedCPUCardIdx \in NonJackSlots(casino)]_vars

----------------------------------------------------------------------------
(* Reset. *)

\* what a reset leaves: no game, no level, nothing scored, collected, dealt
\* or remembered, and nothing to undo
IsReset(c) ==
  /\ c.gameState = StateNotStarted
  /\ c.level = LevelNotSelected
  /\ c.playerPoint = 0
  /\ c.cpuPoint = 0
  /\ c.cardsCollectedByPlayer = 0
  /\ c.cardsCollectedByCPU = 0
  /\ c.cardsOnTable = 0
  /\ c.currentCard = 0
  /\ c.currentHandMemoryLength = 0
  /\ c.allPlayedCardsMemoryLength = 0
  /\ \A i \in Slots : c.playerCards[i] = Nil /\ c.cpuCards[i] = Nil
  /\ c.lastScorer = NoPlayer
  /\ ~c.canUndo

\* C35: ResetGame, from whatever state, leaves state NotStarted, no level,
\* scores and collected counts 0, an empty table pile, cursor 0, both memory
\* lengths 0, empty hands, no last scorer and can-undo false.  An undo
\* called next fails and changes nothing; and as long as no level is
\* selected, which only SetLevel does, StartGame fails.
C35_ResetClearsGame ==
  [][/\ lastOp'.op = "ResetGame" => IsReset(casino')
     /\ lastOp.op = "ResetGame" /\ lastOp'.op = "undo"
          => ~lastOp'.ret /\ casino' = casino
     /\ lastOp'.op = "StartGame" /\ casino.level = LevelNotSelected
          => ~lastOp'.ret /\ casino'.gameState = StateNotStarted
     /\ casino.level = LevelNotSelected /\ casino'.level # LevelNotSelected
          => lastOp'.op = "SetLevel"]_vars

\* ResetGame has been called on a game in which the player had just played,
\* points had been scored and an undo was available
C35_Witness ==
  /\ lastOp.op = "ResetGame"
  /\ prevOp = "play"
  /\ steps > MaxSteps - FreeOps + 1
  /\ pre.c.canUndo
  /\ pre.c.playerPoint > 0
  /\ pre.c.cpuPoint > 0
  /\ pre.c.currentCard > 12
  /\ IsReset(casino)
  /\ ~undoImplementation(casino).ret
  /\ \A seed \in 1..NumSeeds : ~StartGame(casino, RandSeq(seed)).ret

----------------------------------------------------------------------------
(* The UI's timers and the protocol they are meant to follow. *)

\* the cards credited to the two sides
Collected(c) == c.cardsCollectedByPlayer + c.cardsCollectedByCPU

\* a timer calls cpuPlays or checkEndOfHand while a captured pile is still
\* on display
ActsOnDisplayedPile ==
  /\ casino.gameState = StatePileCaptured
  /\ casino.cardsOnTable > 0
  /\ lastOp'.op \in {"cpuPlays", "checkEndOfHand"}

\* C36: whatever the order in which the UI's pending timers fire, the two
\* sides have never collected more than 52 cards between them, and a pile
\* that is on display, which was credited when it was captured, is not
\* credited again by a cpuPlays or a checkEndOfHand that runs before the
\* capture is finalized: such a call credits no card, and adds no points
\* except the majority bonus of a game that ends.
C36_NoDoubleCredit ==
  /\ [](Collected(casino) <= DeckSize)
  /\ [][ActsOnDisplayedPile
          => /\ Collected(casino') = Collected(casino)
             /\ casino'.playerPoint + casino'.cpuPoint
                  <= casino.playerPoint + casino.cpuPoint + 3]_vars

\* C37: when the calls follow the protocol (a click, then the CPU's move,
\* every capture finalized before the next call, checkEndOfHand once the
\* hand is empty) and there is no undo, a game that is over has an empty
\* table pile, empty hands, the deck cursor at 52 and all 52 cards
\* collected by the two sides.
C37_GameOverComplete ==
  casino.gameState = StateGameOver
    => /\ casino.cardsOnTable = 0
       /\ HeldCards(casino.playerCards) = 0
       /\ HeldCards(casino.cpuCards) = 0
       /\ casino.currentCard = DeckSize
       /\ Collected(casino) = DeckSize

\* a game has ended in which both sides captured and the CPU captured the
\* pile with its last card
C37_Witness ==
  /\ casino.gameState = StateGameOver
  /\ lastOp.op = "checkEndOfHand"
  /\ prevOp = "other"
  /\ casino.lastScorer = CPU
  /\ casino.cardsCollectedByPlayer > 0
  /\ casino.cardsCollectedByCPU > 0
  /\ Collected(casino) = DeckSize
  /\ ui.playerMoves = (DeckSize - HandSize) \div 2

\* C38: under the protocol, without undo, reset or restart, every started
\* game reaches GameOver, and when it is over 6 hands have been dealt and
\* each side has played exactly 24 cards.
C38_GameTerminates ==
  /\ <>(casino.gameState = StateGameOver)
  /\ [](casino.gameState = StateGameOver
          => /\ ui.hands = 6
             /\ ui.playerMoves = 24
             /\ ui.cpuMoves = 24)

\* a game of six hands is over, the last of them dealt from the last eight
\* cards of the deck
C38_Witness ==
  /\ casino.gameState = StateGameOver
  /\ lastOp.op = "checkEndOfHand"
  /\ ui.hands = 6
  /\ ui.playerMoves = 24
  /\ ui.cpuMoves = 24
  /\ ~StepPending

----------------------------------------------------------------------------
(* The AI's memory. *)

\* the cards that have left the two hands since the last deal
PlayedInHand(c) ==
  2 * HandSize - HeldCards(c.playerCards) - HeldCards(c.cpuCards)

\* the cards dealt to the hands so far that have left them
PlayedInGame(c) ==
  c.currentCard - HandSize - HeldCards(c.playerCards) - HeldCards(c.cpuCards)

====
